---- MODULE Spec2Model ----
(***************************************************************************)
(* Model of the phrase memory store of native-phrase-agent                 *)
(* (tools/memory_bank_tool.py): the in-memory collection of each store     *)
(* instance, the JSON backing file they share, and the operations          *)
(* __init__/_load_memory, add_phrase, get_random_phrase, get_memory_stats. *)
(*                                                                         *)
(* A Python str is a sequence of characters.  A character is a one-letter  *)
(* string; the words the regular expressions look for ("Phrase to learn",  *)
(* "strong") are single atoms of the sequence.  Python's None is the       *)
(* value None below, which is no string.                                   *)
(***************************************************************************)
EXTENDS Integers, Sequences, FiniteSets, TLC

\* ------------------------------------------------------------------------
\* Bounds of the model
\* ------------------------------------------------------------------------
MaxTime == 1             \* the wall clock stops advancing at this reading
MaxCount == 2            \* largest count passed to get_random_phrase
MaxFaults == 1           \* I/O failures the operating system produces in a run
MaxRecords == 2          \* the lesson pipeline adds to a store of fewer records
MaxChoices == 4          \* largest num_choices of generate_quiz, its default

Stores == {"web", "cli"} \* the processes that each build a MemoryBankTool

\* ------------------------------------------------------------------------
\* Python values
\* ------------------------------------------------------------------------
None == <<"None">>

Truthy(x) == x # None /\ x # <<>>

\* Python's `a or b`
Or(a, b) == IF Truthy(a) THEN a ELSE b

Whitespace == {" ", "\n"}

RECURSIVE LStrip(_)
LStrip(s) ==
    IF s # <<>> /\ Head(s) \in Whitespace THEN LStrip(Tail(s)) ELSE s

RECURSIVE RStrip(_)
RStrip(s) ==
    IF s # <<>> /\ s[Len(s)] \in Whitespace
    THEN RStrip(SubSeq(s, 1, Len(s) - 1))
    ELSE s

\* str.strip()
Strip(s) == RStrip(LStrip(s))

LowerChar(c) ==
    CASE c = "A" -> "a"
      [] c = "B" -> "b"
      [] c = "K" -> "k"
      [] c = "Phrase to learn" -> "phrase to learn"
      [] c = "STRONG" -> "strong"
      [] c = "Definition" -> "definition"
      [] c = "Examples" -> "examples"
      [] c = "Example" -> "example"
      [] c = "Usage" -> "usage"
      [] c = "Notes" -> "notes"
      [] c = "Lesson" -> "lesson"
      [] c = "LESSON" -> "lesson"
      [] c = "Meaning" -> "meaning"
      [] c = "What to improve" -> "what to improve"
      [] c = "Corrected context" -> "corrected context"
      [] c = "Suggested Colloquial Phrase" -> "suggested colloquial phrase"
      [] OTHER -> c

\* str.lower()
Lower(s) == [i \in DOMAIN s |-> LowerChar(s[i])]

\* a local variable: F applied to the value of v, v being computed once
Bind(v, F(_)) == CHOOSE r \in { F(x) : x \in {v} } : TRUE

\* ------------------------------------------------------------------------
\* Regular expressions of _extract_canonical_from_lesson
\* ------------------------------------------------------------------------
At(t, i) == IF i \in DOMAIN t THEN t[i] ELSE "EOF"

\* length of the longest run of characters outside excl starting at i
RECURSIVE RunLen(_, _, _)
RunLen(t, i, excl) ==
    IF i > Len(t) \/ t[i] \in excl THEN 0 ELSE 1 + RunLen(t, i + 1, excl)

\* length of the longest run of whitespace starting at i  (\s*)
RECURSIVE WsLen(_, _)
WsLen(t, i) ==
    IF i > Len(t) \/ t[i] \notin Whitespace THEN 0 ELSE 1 + WsLen(t, i + 1)

\* (?:Phrase to learn|Suggested colloquial phrase) under re.IGNORECASE
IsLabel(c) == LowerChar(c) \in {"phrase to learn", "suggested colloquial phrase"}

\* <<([^>]+)>> attempted at position d: the captured group, or None
MarkerAt(t, d) ==
    LET n == RunLen(t, d + 2, {">"})
    IN  IF /\ At(t, d) = "<" /\ At(t, d + 1) = "<"
           /\ n >= 1
           /\ At(t, d + 2 + n) = ">" /\ At(t, d + 3 + n) = ">"
        THEN SubSeq(t, d + 2, d + 1 + n)
        ELSE None

\* "?([^\n"]+)"? attempted at position d: the captured group, or None
PlainAt(t, d) ==
    LET b == IF At(t, d) = "\"" /\ RunLen(t, d + 1, {"\n", "\""}) >= 1
             THEN d + 1 ELSE d
        n == RunLen(t, b, {"\n", "\""})
    IN  IF n >= 1 THEN SubSeq(t, b, b + n - 1) ELSE None

\* (?:<<([^>]+)>>|"?([^\n"]+)"?) attempted at d: group 1 or group 2, or None
ValueAt(t, d) ==
    IF MarkerAt(t, d) # None THEN MarkerAt(t, d) ELSE PlainAt(t, d)

\* the ways \s*[:\-]?\s* can be matched after the label at position i and be
\* followed by a value: <<k1, c, k2>> = whitespace, separator, whitespace
LabelSplits(t, i) ==
    { x \in (0..WsLen(t, i + 1)) \X {0, 1} \X (0..Len(t)) :
        /\ x[2] = 1 => At(t, i + 1 + x[1]) \in {":", "-"}
        /\ x[3] <= WsLen(t, i + 1 + x[1] + x[2])
        /\ ValueAt(t, i + 1 + x[1] + x[2] + x[3]) # None }

\* the backtracking order of the greedy quantifiers: longest first
Preferred(x, y) ==
    \/ x[1] > y[1]
    \/ x[1] = y[1] /\ x[2] > y[2]
    \/ x[1] = y[1] /\ x[2] = y[2] /\ x[3] >= y[3]

\* the label pattern attempted at position i: m.group(1) or m.group(2), or
\* None when the pattern does not match there
LabelAt(t, i) ==
    IF ~IsLabel(At(t, i)) THEN None
    ELSE Bind(LabelSplits(t, i), LAMBDA S :
         IF S = {} THEN None
         ELSE Bind(CHOOSE x \in S : \A y \in S : Preferred(x, y), LAMBDA x :
              ValueAt(t, i + 1 + x[1] + x[2] + x[3])))

\* re.search scans from the left: the least position of S, 0 when S is empty
LeftMost(S) == IF S = {} THEN 0 ELSE CHOOSE i \in S : \A j \in S : i <= j

\* re.search of the label pattern: the group of the leftmost match, or None
LabelSearch(t) ==
    Bind({ <<j, LabelAt(t, j)>> : j \in DOMAIN t }, LAMBDA M :
    Bind(LeftMost({ m[1] : m \in { x \in M : x[2] # None } }), LAMBDA i :
         IF i = 0 THEN None ELSE (CHOOSE m \in M : m[1] = i)[2]))

\* re.search(r'<<([^>]+)>>', t): group 1 of the leftmost match, or None
MarkerSearch(t) ==
    LET i == LeftMost({j \in DOMAIN t : MarkerAt(t, j) # None})
    IN  IF i = 0 THEN None ELSE MarkerAt(t, i)

\* <strong>([^<]+)</strong> under re.IGNORECASE attempted at position d
StrongAt(t, d) ==
    LET n == RunLen(t, d + 3, {"<"})
        e == d + 3 + n
    IN  IF /\ At(t, d) = "<" /\ LowerChar(At(t, d + 1)) = "strong"
           /\ At(t, d + 2) = ">"
           /\ n >= 1
           /\ At(t, e) = "<" /\ At(t, e + 1) = "/"
           /\ LowerChar(At(t, e + 2)) = "strong" /\ At(t, e + 3) = ">"
        THEN SubSeq(t, d + 3, e - 1)
        ELSE None

\* re.search of the strong pattern: group 1 of the leftmost match, or None
StrongSearch(t) ==
    LET i == LeftMost({j \in DOMAIN t : StrongAt(t, j) # None})
    IN  IF i = 0 THEN None ELSE StrongAt(t, i)

\* length of the match of <[^>]+> at position i, 0 when it does not match
TagLen(t, i) ==
    LET n == RunLen(t, i + 1, {">"})
    IN  IF At(t, i) = "<" /\ n >= 1 /\ At(t, i + 1 + n) = ">" THEN n + 2 ELSE 0

\* re.sub(r'<[^>]+>', '', t) from position i on
RECURSIVE StripTagsFrom(_, _)
StripTagsFrom(t, i) ==
    IF i > Len(t) THEN <<>>
    ELSE IF TagLen(t, i) > 0 THEN StripTagsFrom(t, i + TagLen(t, i))
    ELSE <<t[i]>> \o StripTagsFrom(t, i + 1)

StripTags(t) == StripTagsFrom(t, 1)

\* (m.group(1) or m.group(2) or '').strip() or None
LabelResult(g) == Or(Strip(Or(g, <<>>)), None)

\* MemoryBankTool._extract_canonical_from_lesson
ExtractCanonicalFromLesson(lesson_text, lesson_html) ==
    LET text == Or(lesson_text, <<>>)
        html == Or(lesson_html, <<>>)
        plain == StripTags(html)
        fromHtml ==
            IF html = <<>> THEN None
            ELSE Bind(LabelSearch(plain), LAMBDA m :
                 IF m # None THEN LabelResult(m)
                 ELSE Bind(StrongSearch(html), LAMBDA m3 :
                      IF m3 # None /\ Strip(m3) # <<>> THEN Strip(m3) ELSE None))
    IN  Bind(fromHtml, LAMBDA late :
        IF text = <<>> THEN late
        ELSE Bind(LabelSearch(text), LAMBDA m :
             IF m # None THEN LabelResult(m)
             ELSE Bind(MarkerSearch(text), LAMBDA m2 :
                  IF m2 # None /\ Strip(m2) # <<>> THEN Strip(m2) ELSE late)))


\* ------------------------------------------------------------------------
\* Records (Python dicts) and their JSON form
\* ------------------------------------------------------------------------
\* dict.get(k)
Get(item, k) == IF k \in DOMAIN item THEN item[k] ELSE None

\* item[k] = v
Put(item, k, v) ==
    [x \in DOMAIN item \cup {k} |-> IF x = k THEN v ELSE item[x]]

\* json.dump writes None as null and a str as a JSON string
ToJson(v) == IF v = None THEN [t |-> "null"] ELSE [t |-> "string", v |-> v]

FromJson(j) == IF j.t = "null" THEN None ELSE j.v

\* JsonDump with a serializer that leaves out the keys whose value is None
JsonDumpSkipNull(mem) ==
    [i \in DOMAIN mem |->
        [k \in {x \in DOMAIN mem[i] : mem[i][x] # None} |-> ToJson(mem[i][k])]]

\* json.dump(self.memory, f): the text of the file as a JSON array of objects
JsonDump(mem) ==
    [i \in DOMAIN mem |-> [k \in DOMAIN mem[i] |-> ToJson(mem[i][k])]]

\* json.load(f) of such an array
JsonLoad(arr) ==
    [i \in DOMAIN arr |-> [k \in DOMAIN arr[i] |-> FromJson(arr[i][k])]]

\* datetime.now().strftime(...): fixed width, zero padded
Digit(n) == <<"0", "1", "2", "3", "4", "5", "6", "7", "8", "9">>[n + 1]

GetTimestamp(t) == <<Digit((t \div 10) % 10), Digit(t % 10)>>

\* ------------------------------------------------------------------------
\* The backing file memory_bank.json
\* ------------------------------------------------------------------------
NoFile == [kind |-> "missing"]
Malformed == [kind |-> "malformed"]      \* text that is not JSON, e.g. a truncated dump
BadEncoding == [kind |-> "badutf8"]      \* bytes that are not UTF-8
JsonFile(arr) == [kind |-> "json", val |-> arr]

\* open(..., 'r', encoding='utf-8') and json.load(f): the value, or the
\* exception raised.  io is whether the operating system lets the file be read.
ReadFile(f, io) ==
    IF io = "ioerror" THEN [exc |-> "IOError"]
    ELSE CASE f.kind = "json" -> [exc |-> "none", val |-> JsonLoad(f.val)]
           [] f.kind = "malformed" -> [exc |-> "JSONDecodeError"]
           [] f.kind = "badutf8" -> [exc |-> "UnicodeDecodeError"]

\* except (IOError, json.JSONDecodeError)
LoadCaught(exc) == exc \in {"IOError", "JSONDecodeError"}

\* MemoryBankTool._load_memory
LoadMemory(f, io) ==
    IF f.kind = "missing" THEN [exc |-> "none", val |-> <<>>]
    ELSE LET r == ReadFile(f, io)
         IN  IF r.exc = "none" THEN r
             ELSE IF LoadCaught(r.exc) THEN [exc |-> "none", val |-> <<>>]
             ELSE r

\* SaveMemory that keeps the records of the file whose phrase mem lacks
SaveMemoryMerging(f, mem, io) ==
    LET old == IF f.kind = "json" THEN JsonLoad(f.val) ELSE <<>>
        has(item) == \E i \in DOMAIN mem : Get(mem[i], "phrase") = Get(item, "phrase")
        kept == SelectSeq(old, LAMBDA item : ~has(item))
    IN  CASE io = "ok" -> [kind |-> "json", val |-> JsonDump(kept \o mem)]
          [] io = "open_failed" -> f
          [] io = "write_failed" -> [kind |-> "malformed"]

\* what the file holds after open(..., 'w') and json.dump of mem: io is
\* "ok", "open_failed" (IOError before the file is truncated) or
\* "write_failed" (IOError after part of the text was written)
SaveMemory(f, mem, io) ==
    CASE io = "ok" -> JsonFile(JsonDump(mem))
      [] io = "open_failed" -> f
      [] io = "write_failed" -> Malformed

SaveOutcomes == {"ok", "open_failed", "write_failed"}

\* ------------------------------------------------------------------------
\* add_phrase
\* ------------------------------------------------------------------------
\* _norm without lower()
NormExact(s) == Strip(Or(s, <<>>))

\* _norm
Norm(s) == Strip(Lower(Or(s, <<>>)))

\* final_phrase without strip()
FinalPhraseUntrimmed(canonical, phrase) == Or(Or(canonical, phrase), <<>>)

\* final_phrase = (canonical or phrase or '').strip()
FinalPhrase(canonical, phrase) == Strip(Or(Or(canonical, phrase), <<>>))

\* the phrase add_phrase resolves for a call
Resolved(call) ==
    FinalPhrase(ExtractCanonicalFromLesson(call.lesson_text, call.lesson_html),
                call.phrase)

\* index of the first record whose phrase matches final_phrase, 0 when none
MatchIndex(mem, final) ==
    IF \E i \in DOMAIN mem : Norm(Get(mem[i], "phrase")) = Norm(final)
    THEN CHOOSE i \in DOMAIN mem :
            /\ Norm(Get(mem[i], "phrase")) = Norm(final)
            /\ \A j \in 1..(i - 1) : Norm(Get(mem[j], "phrase")) # Norm(final)
    ELSE 0

PutIf(item, k, v) == IF Truthy(v) THEN Put(item, k, v) ELSE item

\* MergeItem that leaves date_added as it was
MergeItemKeepDate(item, call, ts) ==
    PutIf(PutIf(PutIf(PutIf(item,
        "meaning", call.meaning),
        "corrected_context", call.corrected_context),
        "lesson_text", call.lesson_text),
        "lesson_html", call.lesson_html)

\* the merge of a call into a matching record
MergeItem(item, call, ts) ==
    Put(PutIf(PutIf(PutIf(PutIf(item,
        "meaning", call.meaning),
        "corrected_context", call.corrected_context),
        "lesson_text", call.lesson_text),
        "lesson_html", call.lesson_html),
        "date_added", ts)

\* the record appended for a call with no matching record
NewEntry(final, call, ts) ==
    PutIf(PutIf(PutIf(PutIf(
        [k \in {"phrase", "meaning", "date_added"} |->
            CASE k = "phrase" -> final
              [] k = "meaning" -> call.meaning
              [] k = "date_added" -> ts],
        "source_context", call.source_context),
        "corrected_context", call.corrected_context),
        "lesson_text", call.lesson_text),
        "lesson_html", call.lesson_html)

\* self.memory after add_phrase has resolved the phrase final
AddMemory(mem, final, call, ts) ==
    LET idx == MatchIndex(mem, final)
    IN  IF final = <<>> THEN mem
        ELSE IF idx # 0 THEN [mem EXCEPT ![idx] = MergeItem(mem[idx], call, ts)]
        ELSE Append(mem, NewEntry(final, call, ts))

\* the status message add_phrase returns
AddStatus(mem, final) ==
    IF final = <<>> THEN [kind |-> "no_valid_phrase"]
    ELSE IF MatchIndex(mem, final) # 0
         THEN [kind |-> "updated", phrase |-> final]
         ELSE [kind |-> "added", phrase |-> final]

\* ------------------------------------------------------------------------
\* get_random_phrase and get_memory_stats
\* ------------------------------------------------------------------------
\* the orders in which random.sample(mem, count) can pick count records
Samples(mem, count) ==
    { sel \in [1..count -> DOMAIN mem] :
        \A i, j \in 1..count : i # j => sel[i] # sel[j] }

\* the view of one record; phrase["phrase"] and phrase["meaning"] raise
\* KeyError when the key is missing
View(item) == [phrase |-> item["phrase"], meaning |-> item["meaning"]]

Viewable(item) == {"phrase", "meaning"} \subseteq DOMAIN item

\* the result of get_random_phrase(count) when random.sample picks sel
RandomPhraseResult(mem, count, sel) ==
    IF \A i \in DOMAIN sel : Viewable(mem[sel[i]])
    THEN [kind |-> "list", items |-> [i \in DOMAIN sel |-> View(mem[sel[i]])]]
    ELSE [kind |-> "raise", exc |-> "KeyError"]

\* the single-element list returned when the store holds too few records
NotEnough(mem, count) ==
    [kind |-> "list",
     items |-> <<[error |-> [needed |-> count, found |-> Len(mem)]]>>]

\* get_memory_stats
MemoryStats(mem) == [kind |-> "stats", count |-> Len(mem)]

\* ------------------------------------------------------------------------
\* The canonical-phrase resolver of the review agent
\* ------------------------------------------------------------------------
\* ReviewAgent._canonical_from_labels
CanonicalFromLabels(text) ==
    IF ~Truthy(text) THEN None ELSE LabelResult(LabelSearch(text))

\* `m and m.group(1).strip()`: the trimmed group of a match, or None
StripFound(g) == IF g = None \/ Strip(g) = <<>> THEN None ELSE Strip(g)

\* ReviewAgent._extract_canonical_phrase
ExtractCanonicalPhrase(item) ==
    LET lesson_text == Or(Get(item, "lesson_text"), <<>>)
        lesson_html == Or(Get(item, "lesson_html"), <<>>)
        lab == CanonicalFromLabels(lesson_text)
        m == StripFound(MarkerSearch(lesson_text))
        m2 == StripFound(StrongSearch(lesson_html))
        lab2 == CanonicalFromLabels(StripTags(lesson_html))
    IN  IF Truthy(lab) THEN lab
        ELSE IF m # None THEN m
        ELSE IF m2 # None THEN m2
        ELSE IF Truthy(lab2) THEN lab2
        ELSE Or(Get(item, "phrase"), None)

\* ------------------------------------------------------------------------
\* String operations of the lesson parser
\* ------------------------------------------------------------------------
\* the number of characters of an atom of a string
Width(c) ==
    CASE c \in {"Phrase to learn", "phrase to learn", "What to improve"} -> 15
      [] c \in {"strong", "STRONG", "(none)", "Lesson"} -> 6
      [] c = "Corrected context" -> 17
      [] c = "Definition" -> 10
      [] c = "Examples" -> 8
      [] c = "Example" -> 7
      [] c \in {"Usage", "Notes"} -> 5
      [] c \in {"&lt;", "&gt;"} -> 4
      [] c = "&amp;" -> 5
      [] c = "br" -> 2
      [] c = "I often say, '" -> 14
      [] c = "', when I want to emphasize that idea" -> 37
      [] c = "You can use '" -> 13
      [] c = "' in everyday conversation to express this meaning" -> 50
      [] c = "I used '" -> 8
      [] c = "' in a sentence" -> 15
      [] c = "Can you say: '" -> 14
      [] c = "' naturally?" -> 12
      [] c \in {"Suggested Colloquial Phrase", "Suggested colloquial phrase",
                 "suggested colloquial phrase"} -> 27
      [] c \in {"definition"} -> 10
      [] c \in {"replaces", "examples"} -> 8
      [] c \in {"clear", "found", "usage", "notes"} -> 5
      [] c \in {"No", "is"} -> 2
      [] OTHER -> 1

\* len(s)
RECURSIVE CharLen(_)
CharLen(s) == IF s = <<>> THEN 0 ELSE Width(Head(s)) + CharLen(Tail(s))

\* length of the longest run of characters of incl starting at i
RECURSIVE SpanLen(_, _, _)
SpanLen(t, i, incl) ==
    IF i > Len(t) \/ t[i] \notin incl THEN 0 ELSE 1 + SpanLen(t, i + 1, incl)

\* s.replace(ab, r) for the two-character string ab, from position i on
RECURSIVE ReplacePairFrom(_, _, _, _, _)
ReplacePairFrom(s, i, a, b, r) ==
    IF i > Len(s) THEN <<>>
    ELSE IF s[i] = a /\ At(s, i + 1) = b
         THEN r \o ReplacePairFrom(s, i + 2, a, b, r)
    ELSE <<s[i]>> \o ReplacePairFrom(s, i + 1, a, b, r)

\* s.replace('<>', r)
ReplaceAngles(s, r) == ReplacePairFrom(s, 1, "<", ">", r)

\* s.replace('  ', ' ')
HalveSpaces(s) == ReplacePairFrom(s, 1, " ", " ", <<" ">>)

\* re.sub(r'\s{2,}', ' ', s) from position i on
RECURSIVE SquashSpacesFrom(_, _)
SquashSpacesFrom(s, i) ==
    IF i > Len(s) THEN <<>>
    ELSE IF WsLen(s, i) >= 2
         THEN <<" ">> \o SquashSpacesFrom(s, i + WsLen(s, i))
    ELSE <<s[i]>> \o SquashSpacesFrom(s, i + 1)

SquashSpaces(s) == SquashSpacesFrom(s, 1)

\* re.sub(r'<<([^>]*)>>', lambda mo: (mo.group(1).strip() or canonical
\* or '').strip(), s) from position i on
RECURSIVE SubMarkersFrom(_, _, _)
SubMarkersFrom(s, i, canonical) ==
    LET n == RunLen(s, i + 2, {">"})
    IN  IF i > Len(s) THEN <<>>
        ELSE IF /\ s[i] = "<" /\ At(s, i + 1) = "<"
                /\ At(s, i + 2 + n) = ">" /\ At(s, i + 3 + n) = ">"
             THEN Strip(Or(Strip(SubSeq(s, i + 2, i + 1 + n)), Or(canonical, <<>>)))
                  \o SubMarkersFrom(s, i + 4 + n, canonical)
        ELSE <<s[i]>> \o SubMarkersFrom(s, i + 1, canonical)

SubMarkers(s, canonical) == SubMarkersFrom(s, 1, canonical)

\* re.split(r'\n+', s) from position i on, cur being the piece so far
RECURSIVE SplitLinesFrom(_, _, _)
SplitLinesFrom(s, i, cur) ==
    IF i > Len(s) THEN <<cur>>
    ELSE IF s[i] = "\n"
         THEN <<cur>> \o SplitLinesFrom(s, i + SpanLen(s, i, {"\n"}), <<>>)
    ELSE SplitLinesFrom(s, i + 1, Append(cur, s[i]))

SplitLines(s) == SplitLinesFrom(s, 1, <<>>)

Digits == {"0", "1", "2", "3", "4", "5", "6", "7", "8", "9"}

\* re.sub(r'^[\-\*\d\.)\s]+', '', s)
StripBullets(s) ==
    SubSeq(s, 1 + SpanLen(s, 1, {"-", "*", ".", ")"} \cup Digits \cup Whitespace),
           Len(s))

\* re.split(r'(?<=[\.\?\!])\s+', s) from position i on
RECURSIVE SplitSentencesFrom(_, _, _)
SplitSentencesFrom(s, i, cur) ==
    IF i > Len(s) THEN <<cur>>
    ELSE IF s[i] \in Whitespace /\ At(s, i - 1) \in {".", "?", "!"}
         THEN <<cur>> \o SplitSentencesFrom(s, i + WsLen(s, i), <<>>)
    ELSE SplitSentencesFrom(s, i + 1, Append(cur, s[i]))

SplitSentences(s) == SplitSentencesFrom(s, 1, <<>>)

\* re.findall(r'[^\n\.]+\.', t) from position i on
RECURSIVE SentencesFrom(_, _)
SentencesFrom(t, i) ==
    LET n == RunLen(t, i, {"\n", "."})
    IN  IF i > Len(t) THEN <<>>
        ELSE IF n >= 1 /\ At(t, i + n) = "."
             THEN <<SubSeq(t, i, i + n)>> \o SentencesFrom(t, i + n + 1)
        ELSE SentencesFrom(t, i + (IF n = 0 THEN 1 ELSE n))

Sentences(t) == SentencesFrom(t, 1)

\* `sub in s`
Contains(s, sub) ==
    \E i \in 1..(Len(s) - Len(sub) + 1) : SubSeq(s, i, i + Len(sub) - 1) = sub

\* re.search(re.escape(canonical), sent, re.IGNORECASE) or '<<' in sent
MentionsPhrase(sent, canonical) ==
    Contains(Lower(sent), Lower(canonical)) \/ Contains(sent, <<"<", "<">>)

\* ------------------------------------------------------------------------
\* Labelled sections: a word, \s*[:\-]?\s*, and the text after it
\* ------------------------------------------------------------------------
\* the word w under re.IGNORECASE
IsWord(c, w) == LowerChar(c) = w

\* whether the text pattern after the separator can start at position d:
\*   "line" (.+)    "nolt" ([^<]+)    "some" (.+?) under re.DOTALL
\*   "any"  (.*?) under re.DOTALL, its terminator matching $ at the latest
ValueOK(t, d, kind) ==
    CASE kind = "line" -> RunLen(t, d, {"\n"}) >= 1
      [] kind = "nolt" -> RunLen(t, d, {"<"}) >= 1
      [] kind = "some" -> d <= Len(t)
      [] kind = "any" -> TRUE

\* the ways [:\-]?\s* can be matched at position p: <<separator, whitespace>>
SepTails(t, p) ==
    UNION { { <<c, k>> : k \in 0..WsLen(t, p + c) } :
            c \in IF At(t, p) \in {":", "-"} THEN {0, 1} ELSE {0} }

\* the ways \s*[:\-]?\s* (digits false) or \s*\d*\s*[:\-]?\s* (digits true)
\* can be matched after the word at position i and be followed by the text
\* pattern: <<whitespace, digits, whitespace, separator, whitespace>>
SepSplits(t, i, kind, digits) ==
    UNION { UNION { UNION {
        { <<k1, kd, k2, y[1], y[2]>> :
            y \in { z \in SepTails(t, i + 1 + k1 + kd + k2) :
                      ValueOK(t, i + 1 + k1 + kd + k2 + z[1] + z[2], kind) } } :
        k2 \in 0..(IF digits THEN WsLen(t, i + 1 + k1 + kd) ELSE 0) } :
        kd \in 0..(IF digits THEN SpanLen(t, i + 1 + k1, Digits) ELSE 0) } :
        k1 \in 0..WsLen(t, i + 1) }

\* the backtracking order of the five greedy quantifiers
RECURSIVE PreferredFrom(_, _, _)
PreferredFrom(x, y, k) ==
    k > Len(x) \/ x[k] > y[k] \/ (x[k] = y[k] /\ PreferredFrom(x, y, k + 1))

\* where the text after the word at position i starts, 0 when the pattern
\* does not match at i
SepStart(t, i, kind, digits) ==
    Bind(SepSplits(t, i, kind, digits), LAMBDA S :
    IF S = {} THEN 0
    ELSE Bind(CHOOSE x \in S : \A y \in S : PreferredFrom(x, y, 1), LAMBDA x :
         i + 1 + x[1] + x[2] + x[3] + x[4] + x[5]))

\* the leftmost position where word w starts a match of the pattern
SectionAt(t, w, kind, digits) ==
    LeftMost({ j \in DOMAIN t :
                 IsWord(t[j], w) /\ SepStart(t, j, kind, digits) # 0 })

\* letters and words of letters
UpperLetters == {"A", "B", "K"}
LowerLetters == {"a", "b", "c", "d", "j", "k", "m", "n"}
CapWords == {"Definition", "Examples", "Example", "Usage", "Notes", "Lesson"}
LowerWords == {"strong", "br", "definition", "examples", "example", "usage",
               "notes", "lesson"}
UpperWords == {"STRONG"}

\* [A-Z][a-z]+\s*[:\-] attempted at position p, ic being re.IGNORECASE
CapWordSep(t, p, ic) ==
    LET r == SpanLen(t, p + 1, LowerLetters \cup LowerWords)
        n == SpanLen(t, p, UpperLetters \cup LowerLetters \cup CapWords
                           \cup LowerWords \cup UpperWords)
        q == IF ic THEN p + n ELSE p + 1 + r
        ok == IF ic
              THEN n >= 2 \/ (n = 1 /\ At(t, p) \notin UpperLetters \cup LowerLetters)
              ELSE At(t, p) \in CapWords \/ (At(t, p) \in UpperLetters /\ r >= 1)
    IN  ok /\ At(t, q + WsLen(t, q)) \in {":", "-"}

\* where \n\n or \n[A-Z][a-z]+\s*[:\-] first matches at or after position i,
\* Len(t) + 1 when nowhere
SectionBreak(t, i, ic) ==
    LET S == { p \in i..Len(t) :
                 t[p] = "\n" /\ (At(t, p + 1) = "\n" \/ CapWordSep(t, p + 1, ic)) }
    IN  IF S = {} THEN Len(t) + 1 ELSE LeftMost(S)

\* ------------------------------------------------------------------------
\* The lesson parser of the review agent
\* ------------------------------------------------------------------------
\* s.find(sub) counted from 1, 0 when sub does not occur
Find(s, sub) ==
    LeftMost({ i \in 1..(Len(s) - Len(sub) + 1) :
                 SubSeq(s, i, i + Len(sub) - 1) = sub })

\* s.strip('"')
StripQuotes(s) ==
    LET a == SpanLen(s, 1, {"\""})
        rest == SubSeq(s, a + 1, Len(s))
        b == SpanLen([i \in DOMAIN rest |-> rest[Len(rest) + 1 - i]], 1, {"\""})
    IN  SubSeq(rest, 1, Len(rest) - b)

\* the text from position d to the end of its line, or to the next "<"
RunFrom(t, d, excl) == SubSeq(t, d, d + RunLen(t, d, excl) - 1)

\* ReviewAgent._extract_definition
ExtractDefinition(lesson_text, item) ==
    LET t == lesson_text
        i == SectionAt(t, "definition", "line", FALSE)
        val == Strip(RunFrom(t, SepStart(t, i, "line", FALSE), {"\n"}))
        i2 == SectionAt(t, "definition", "nolt", FALSE)
        phrase == Or(Get(item, "phrase"), <<>>)
        idx == Find(Lower(t), Lower(phrase))
        sents == SplitSentences(SubSeq(t, idx, Len(t)))
    IN  IF ~Truthy(t) THEN Or(Get(item, "meaning"), <<>>)
        ELSE IF i # 0
             THEN Strip(SubSeq(val, 1, SectionBreak(val, 1, FALSE) - 1))
        ELSE IF i2 # 0
             THEN Strip(RunFrom(t, SepStart(t, i2, "nolt", FALSE), {"<"}))
        ELSE IF Truthy(Get(item, "meaning")) THEN Get(item, "meaning")
        ELSE IF phrase # <<>> /\ idx # 0 /\ Len(sents) > 1
             THEN StripQuotes(Strip(sents[2]))
        ELSE <<>>

\* the loop that appends candidates to the examples until there are two:
\* a candidate is taken when it has more than minLen characters and, with
\* dedupe, is not among the examples already
RECURSIVE Collect(_, _, _, _, _)
Collect(examples, cands, i, minLen, dedupe) ==
    IF i > Len(cands) \/ Len(examples) >= 2 THEN examples
    ELSE LET s == cands[i]
             take == /\ CharLen(s) > minLen
                     /\ dedupe => \A k \in DOMAIN examples : examples[k] # s
         IN  Collect(IF take THEN Append(examples, s) ELSE examples,
                     cands, i + 1, minLen, dedupe)

\* where the lazy body (.*?) that starts at d ends: at the first \n\n,
\* \nLesson: or \nUsage (Examples block of the review agent), \n\n or \nNotes:
\* (Examples block of the teacher), \n\n, \nPhrase to learn: or \nDefinition:
\* (What to improve of the teacher), or at the end of the text
BlockEnd(t, d, who) ==
    LET S == { p \in d..Len(t) :
                 /\ t[p] = "\n"
                 /\ \/ At(t, p + 1) = "\n"
                    \/ who = "review" /\ IsWord(At(t, p + 1), "lesson")
                                      /\ At(t, p + 2) = ":"
                    \/ who = "review" /\ IsWord(At(t, p + 1), "usage")
                    \/ who = "teacher" /\ IsWord(At(t, p + 1), "notes")
                                       /\ At(t, p + 2) = ":"
                    \/ who = "improve"
                        /\ LowerChar(At(t, p + 1)) \in {"phrase to learn", "definition"}
                        /\ At(t, p + 2) = ":" }
    IN  IF S = {} THEN Len(t) + 1 ELSE LeftMost(S)

\* the stripped body of the first Examples block, <<>> when there is none
ExamplesBlock(t, who) ==
    LET i == LeftMost({ j \in DOMAIN t :
                          IsWord(t[j], "examples") \/ IsWord(t[j], "example") })
        d == SepStart(t, i, "any", FALSE)
    IN  IF i = 0 THEN <<>> ELSE Strip(SubSeq(t, d, BlockEnd(t, d, who) - 1))

\* re.findall(r'Usage\s*\d*\s*[:\-]?\s*(.+)', t, re.IGNORECASE) from i on
RECURSIVE UsagesFrom(_, _)
UsagesFrom(t, i) ==
    LET j == LeftMost({ k \in i..Len(t) :
                          IsWord(t[k], "usage") /\ SepStart(t, k, "line", TRUE) # 0 })
        d == SepStart(t, j, "line", TRUE)
    IN  IF j = 0 THEN <<>>
        ELSE <<RunFrom(t, d, {"\n"})>>
             \o UsagesFrom(t, d + RunLen(t, d, {"\n"}))

\* the strings of a list value: "[", the items separated by ",", "]"
RECURSIVE ListItemsFrom(_, _, _)
ListItemsFrom(v, i, cur) ==
    IF i >= Len(v) THEN IF Len(v) = 2 THEN <<>> ELSE <<cur>>
    ELSE IF v[i] = "," THEN <<cur>> \o ListItemsFrom(v, i + 1, <<>>)
    ELSE ListItemsFrom(v, i + 1, Append(cur, v[i]))

\* isinstance(v, list)
IsList(v) == v # <<>> /\ v[1] = "["

ListItems(v) == ListItemsFrom(v, 2, <<>>)

\* the candidates of the five stages of _extract_examples
BlockCandidates(block, canonical, who) ==
    LET parts == SplitLines(block)
        Clean(p) ==
            LET s == ReplaceAngles(
                         SubMarkers(Strip(StripBullets(Strip(p))), canonical), <<>>)
            IN  Strip(IF who = "review" THEN HalveSpaces(s) ELSE s)
    IN  [k \in DOMAIN parts |-> Clean(parts[k])]

UsageCandidates(t, canonical) ==
    LET us == UsagesFrom(t, 1)
    IN  [k \in DOMAIN us |-> SubMarkers(Strip(us[k]), canonical)]

LegacyCandidates(item) ==
    LET v == Get(item, "examples")
        xs == IF IsList(v) THEN ListItems(v) ELSE <<>>
    IN  [k \in DOMAIN xs |-> Strip(xs[k])]

SentenceClean(sent, canonical) ==
    Strip(ReplaceAngles(SubMarkers(Strip(sent), canonical), <<>>))

ContextCandidates(item, canonical) ==
    LET sents == IF Truthy(Get(item, "corrected_context"))
                 THEN SplitSentences(Get(item, "corrected_context")) ELSE <<>>
    IN  [k \in DOMAIN sents |-> SentenceClean(sents[k], canonical)]

\* the sentences of the lesson that mention the phrase or hold a marker
RECURSIVE Mentioning(_, _)
Mentioning(sents, canonical) ==
    IF sents = <<>> THEN <<>>
    ELSE (IF MentionsPhrase(Head(sents), canonical) THEN <<Head(sents)>> ELSE <<>>)
         \o Mentioning(Tail(sents), canonical)

LessonCandidates(t, canonical) ==
    LET sents == IF Truthy(canonical) /\ Truthy(t)
                 THEN Mentioning(Sentences(t), canonical) ELSE <<>>
    IN  [k \in DOMAIN sents |-> SentenceClean(sents[k], canonical)]

\* ReviewAgent._extract_examples
ExtractExamples(lesson_text, canonical, item) ==
    LET t == lesson_text
        a == Collect(<<>>, BlockCandidates(ExamplesBlock(t, "review"),
                                           canonical, "review"), 1, 5, FALSE)
        b == Collect(a, UsageCandidates(t, canonical), 1, 0, TRUE)
        c == Collect(b, LegacyCandidates(item), 1, 0, TRUE)
        d == Collect(c, ContextCandidates(item, canonical), 1, 5, TRUE)
        e == Collect(d, LessonCandidates(t, canonical), 1, 0, TRUE)
        final == [k \in DOMAIN e |->
                    SquashSpaces(Strip(ReplaceAngles(e[k], <<>>)))]
    IN  Collect(<<>>, final, 1, 0, FALSE)

\* the filler sentences _parse_lesson fabricates
FillerOne(base) == <<"I used '">> \o base \o <<"' in a sentence", ".">>

FillerTwo(base) == <<"Can you say: '">> \o base \o <<"' naturally?">>

\* _parse_lesson fabricating the first sentence only
FabricateFirstOnly(cleaned, canonical) ==
    IF Len(cleaned) = 0 /\ canonical # <<>>
    THEN <<FillerOne(canonical)>> ELSE cleaned

\* the examples after _parse_lesson has fabricated the missing ones
Fabricate(cleaned, canonical) ==
    Bind(IF Len(cleaned) = 0 /\ canonical # <<>>
         THEN <<FillerOne(canonical)>> ELSE cleaned, LAMBDA one :
         IF Len(one) = 1 /\ canonical # <<>>
         THEN Append(one, FillerTwo(canonical)) ELSE one)

\* ReviewAgent._parse_lesson
ParseLesson(item) ==
    Bind(Or(Get(item, "lesson_text"), <<>>), LAMBDA lesson_text :
    Bind(Or(Or(ExtractCanonicalPhrase(item), Get(item, "phrase")), <<>>),
         LAMBDA canonical :
    Bind(ExtractExamples(lesson_text, canonical, item), LAMBDA examples :
        LET definition == Or(Or(ExtractDefinition(lesson_text, item),
                                Get(item, "meaning")), <<>>)
            cleaned == [k \in DOMAIN examples |->
                          Strip(ReplaceAngles(SubMarkers(examples[k], canonical),
                                              canonical))]
        IN  [phrase |-> Or(Or(canonical, Get(item, "phrase")), <<>>),
             definition |-> definition,
             examples |-> Fabricate(cleaned, canonical)])))

\* ------------------------------------------------------------------------
\* The quiz generator of the review agent
\* ------------------------------------------------------------------------
\* correct.get('phrase') or self._extract_canonical_phrase(correct) or ''
CorrectPhrase(item) ==
    Or(Or(Get(item, "phrase"), ExtractCanonicalPhrase(item)), <<>>)

\* correct.get('meaning') or ''
CorrectMeaning(item) == Or(Get(item, "meaning"), <<>>)

\* d.get('meaning','') or d.get('definition','') or ''
ChoiceText(d) == Or(Or(Get(d, "meaning"), Get(d, "definition")), <<>>)

\* the positions of the records whose phrase differs from the correct one
Distractors(mem, correct_phrase) ==
    { i \in DOMAIN mem :
        Lower(Or(Get(mem[i], "phrase"), <<>>)) # Lower(correct_phrase) }

\* distractors[:max(0, num_choices)]: one distractor too many
TakenOneMore(num_choices, pool) ==
    LET want == IF num_choices > 0 THEN num_choices ELSE 0
    IN  IF want < Cardinality(pool) THEN want ELSE Cardinality(pool)

\* how many distractors distractors[:max(0, num_choices-1)] keeps
Taken(num_choices, pool) ==
    LET want == IF num_choices - 1 > 0 THEN num_choices - 1 ELSE 0
    IN  IF want < Cardinality(pool) THEN want ELSE Cardinality(pool)

\* the ways random.shuffle can order k different elements of the set D
Orderings(D, k) ==
    { sel \in [1..k -> D] : \A i, j \in 1..k : i # j => sel[i] # sel[j] }

\* choices.index(x) that does not find an empty text or one that occurs twice
IndexOfSingle(choices, x) ==
    LET S == { i \in DOMAIN choices : choices[i] = x }
    IN  IF x = <<>> \/ Cardinality(S) # 1 THEN 0 - 1 ELSE LeftMost(S) - 1

\* choices.index(x) with the positions counted from 1
IndexOfFromOne(choices, x) ==
    LET S == { i \in DOMAIN choices : choices[i] = x }
    IN  IF S = {} THEN 0 - 1 ELSE LeftMost(S)

\* choices.index(x) if x in choices else -1, positions counted from 0
IndexOf(choices, x) ==
    LET S == { i \in DOMAIN choices : choices[i] = x }
    IN  IF S = {} THEN 0 - 1 ELSE LeftMost(S) - 1

\* the question generate_quiz builds when random.choice picks record pick,
\* the shuffled distractors start with sel and the second shuffle is perm
QuizQuestion(mem, pick, sel, perm) ==
    LET correct == mem[pick]
        k == Len(sel)
        choices == [i \in 1..(k + 1) |->
                      IF i <= k THEN ChoiceText(mem[sel[i]])
                      ELSE CorrectMeaning(correct)]
        shuffled == [i \in 1..(k + 1) |-> choices[perm[i]]]
    IN  [kind |-> "quiz",
         question |-> <<"What is the best meaning of the phrase: '">>
                      \o CorrectPhrase(correct) \o <<"'?">>,
         phrase |-> CorrectPhrase(correct),
         choices |-> shuffled,
         correct_index |-> IndexOf(shuffled, CorrectMeaning(correct))]

\* {'error': 'No phrases available for quiz.'}
QuizError == [kind |-> "error"]

\* ------------------------------------------------------------------------
\* The teacher agent
\* ------------------------------------------------------------------------
\* the grave accent, the character that quotes code
Grave == "grave"

\* where a code fence (three grave accents) next occurs at or after i, 0 when
\* nowhere
FenceAt(t, i) ==
    LeftMost({ j \in i..Len(t) :
                 t[j] = Grave /\ At(t, j + 1) = Grave /\ At(t, j + 2) = Grave })

\* re.sub of a fenced block (fence, .*? under re.DOTALL, fence) by '', from
\* position i on
RECURSIVE StripFencesFrom(_, _)
StripFencesFrom(t, i) ==
    IF i > Len(t) THEN <<>>
    ELSE IF FenceAt(t, i) = i /\ FenceAt(t, i + 3) # 0
         THEN StripFencesFrom(t, FenceAt(t, i + 3) + 3)
    ELSE <<t[i]>> \o StripFencesFrom(t, i + 1)

\* re.sub of an inline code span (grave accent, [^grave]*, grave accent) by
\* its inside, from position i on
RECURSIVE StripTicksFrom(_, _)
StripTicksFrom(t, i) ==
    LET n == RunLen(t, i + 1, {Grave})
    IN  IF i > Len(t) THEN <<>>
        ELSE IF t[i] = Grave /\ At(t, i + 1 + n) = Grave
             THEN SubSeq(t, i + 1, i + n) \o StripTicksFrom(t, i + n + 2)
        ELSE <<t[i]>> \o StripTicksFrom(t, i + 1)

\* re.sub(r'\*\*?', '', t): every asterisk goes
RECURSIVE StripStars(_)
StripStars(t) ==
    IF t = <<>> THEN <<>>
    ELSE (IF Head(t) = "*" THEN <<>> ELSE <<Head(t)>>) \o StripStars(Tail(t))

\* re.sub(r'\n{3,}', '\n\n', t) from position i on
RECURSIVE CollapseBlankFrom(_, _)
CollapseBlankFrom(t, i) ==
    IF i > Len(t) THEN <<>>
    ELSE IF SpanLen(t, i, {"\n"}) >= 3
         THEN <<"\n", "\n">> \o CollapseBlankFrom(t, i + SpanLen(t, i, {"\n"}))
    ELSE <<t[i]>> \o CollapseBlankFrom(t, i + 1)

\* TeacherAgent._sanitize_lesson_text
SanitizeLessonText(text) ==
    IF ~Truthy(text) THEN text
    ELSE Strip(CollapseBlankFrom(
             ReplacePairFrom(
                 StripStars(StripTicksFrom(StripFencesFrom(text, 1), 1)),
                 1, "_", "_", <<>>), 1))

\* text.replace('&', '&amp;').replace('<', '&lt;').replace('>', '&gt;')
RECURSIVE Escape(_)
Escape(t) ==
    IF t = <<>> THEN <<>>
    ELSE (CASE Head(t) = "&" -> <<"&amp;">>
            [] Head(t) = "<" -> <<"&lt;">>
            [] Head(t) = ">" -> <<"&gt;">>
            [] Head(t) = "&amp;" -> <<"&amp;", "a", "m", "p", ";">>
            [] Head(t) = "&lt;" -> <<"&amp;", "l", "t", ";">>
            [] Head(t) = "&gt;" -> <<"&amp;", "g", "t", ";">>
            [] OTHER -> <<Head(t)>>) \o Escape(Tail(t))

\* re.sub of a span between doubled o and doubled c, the span holding at
\* least min characters and none of stop, by <strong>span</strong>
RECURSIVE StrongSubFrom(_, _, _, _, _, _)
StrongSubFrom(t, i, o, c, stop, min) ==
    LET n == RunLen(t, i + 2, stop)
    IN  IF i > Len(t) THEN <<>>
        ELSE IF /\ t[i] = o /\ At(t, i + 1) = o /\ n >= min
                /\ At(t, i + 2 + n) = c /\ At(t, i + 3 + n) = c
             THEN <<"<", "strong", ">">> \o SubSeq(t, i + 2, i + 1 + n)
                  \o <<"<", "/", "strong", ">">>
                  \o StrongSubFrom(t, i + 4 + n, o, c, stop, min)
        ELSE <<t[i]>> \o StrongSubFrom(t, i + 1, o, c, stop, min)

\* html.replace('\n', '<br>')
RECURSIVE BreakLines(_)
BreakLines(t) ==
    IF t = <<>> THEN <<>>
    ELSE (IF Head(t) = "\n" THEN <<"<", "br", ">">> ELSE <<Head(t)>>)
         \o BreakLines(Tail(t))

\* TeacherAgent._to_html
ToHtml(text) ==
    IF ~Truthy(text) THEN text
    ELSE BreakLines(
             StrongSubFrom(
                 StrongSubFrom(Escape(text), 1, "&lt;", "&gt;",
                               {"&", "&amp;", "&lt;", "&gt;"}, 0),
                 1, "<", ">", {">"}, 1))

\* the canonical phrase TeacherAgent.run settles on
TeacherCanonical(lesson_text, phrase) ==
    LET lab == Or(CanonicalFromLabels(lesson_text),
                  CanonicalFromLabels(ToHtml(lesson_text)))
        m == StripFound(MarkerSearch(lesson_text))
        m2 == StripFound(StrongSearch(ToHtml(lesson_text)))
    IN  IF Truthy(lab) THEN lab
        ELSE IF m # None THEN m
        ELSE IF m2 # None THEN m2
        ELSE Strip(Or(phrase, <<>>))

\* the definition of _extract_definition_and_examples, None when the lesson
\* has no Definition section
TeacherDefinition(t) ==
    LET i == IF Truthy(t) THEN SectionAt(t, "definition", "some", FALSE) ELSE 0
        d == SepStart(t, i, "some", FALSE)
    IN  IF i = 0 THEN None
        ELSE Strip(SubSeq(t, d, SectionBreak(t, d + 1, TRUE) - 1))

\* the filler sentences _extract_definition_and_examples synthesizes
SynthOne(canonical) ==
    <<"I often say, '">> \o canonical
    \o <<"', when I want to emphasize that idea", ".">>

SynthTwo(canonical) ==
    <<"You can use '">> \o canonical
    \o <<"' in everyday conversation to express this meaning", ".">>

\* the examples of _extract_definition_and_examples
TeacherExamples(t, canonical) ==
    LET a == IF Truthy(t)
             THEN Collect(<<>>, BlockCandidates(ExamplesBlock(t, "teacher"),
                                                canonical, "teacher"), 1, 5, FALSE)
             ELSE <<>>
        b == Collect(a, LessonCandidates(t, canonical), 1, 0, TRUE)
        c == IF Len(b) = 0 /\ Truthy(canonical)
             THEN <<SynthOne(canonical)>> ELSE b
        d == IF Len(c) = 1 /\ Truthy(canonical)
             THEN Append(c, SynthTwo(canonical)) ELSE c
    IN  SubSeq(d, 1, IF Len(d) < 2 THEN Len(d) ELSE 2)

\* "No clear definition found."
NoDefinition == <<"No", " ", "clear", " ", "definition", " ", "found", ".">>

\* TeacherAgent._extract_definition_and_examples
ExtractDefinitionAndExamples(lesson_text, canonical) ==
    [definition |-> Or(TeacherDefinition(lesson_text), NoDefinition),
     examples |-> TeacherExamples(lesson_text, canonical)]

\* the What to improve note run keeps, "(none)" when the lesson has none
WhatToImprove(t) ==
    LET i == IF Truthy(t)
             THEN LeftMost({ j \in DOMAIN t : IsWord(t[j], "what to improve") })
             ELSE 0
        d == SepStart(t, i, "any", FALSE)
        note == IF i = 0 THEN <<>>
                ELSE Strip(SubSeq(t, d, BlockEnd(t, d, "improve") - 1))
    IN  IF note = <<>> THEN <<"(none)">> ELSE note

\* the Notes line run appends, <<>> when the lesson has no Notes section
NotesLine(t) ==
    LET i == IF Truthy(t) THEN SectionAt(t, "notes", "some", FALSE) ELSE 0
    IN  IF i = 0 THEN <<>>
        ELSE <<"\n", "Notes", ":", " ">>
             \o Strip(SubSeq(t, SepStart(t, i, "some", FALSE), Len(t)))

\* "\n".join(lines) after a first line
RECURSIVE JoinLines(_)
JoinLines(lines) ==
    IF lines = <<>> THEN <<>> ELSE <<"\n">> \o Head(lines) \o JoinLines(Tail(lines))

\* lesson_text_std of TeacherAgent.run
StandardLesson(what, canonical, definition, examples, notes) ==
    <<"What to improve", ":", " ">> \o what
    \o <<"\n", "Phrase to learn", ":", " ", "<", "<">> \o canonical \o <<">", ">">>
    \o <<"\n", "Definition", ":", " ">> \o definition
    \o <<"\n", "Examples", ":">> \o JoinLines(examples)
    \o notes

\* what TeacherAgent.run computes from the text the service returned
Lesson(phrase, source_context, text) ==
    Bind(SanitizeLessonText(text), LAMBDA lesson_text :
    Bind(TeacherCanonical(lesson_text, phrase), LAMBDA canonical :
    Bind(ExtractDefinitionAndExamples(lesson_text, canonical), LAMBDA de :
    Bind(StandardLesson(WhatToImprove(lesson_text), canonical, de.definition,
                        de.examples, NotesLine(lesson_text)), LAMBDA std :
    Bind(ToHtml(std), LAMBDA html :
        [canonical |-> canonical,
         definition |-> de.definition,
         examples |-> de.examples,
         lesson_text |-> std,
         lesson_html |-> html,
         call |-> [phrase |-> canonical, meaning |-> de.definition,
                   source_context |-> None, corrected_context |-> source_context,
                   lesson_text |-> std, lesson_html |-> html]])))))

\* ------------------------------------------------------------------------
\* The teaching-target resolver  (main.extract_phrase_for_teaching)
\* ------------------------------------------------------------------------
\* the characters of [A-Za-z]; a word atom stands for its letters and the
\* spaces between them
Alpha ==
    UpperLetters \cup LowerLetters \cup CapWords \cup LowerWords \cup UpperWords
    \cup {"Phrase to learn", "phrase to learn", "What to improve",
          "Corrected context", "Suggested Colloquial Phrase", "is", "replaces"}

\* \w
WordChars == Alpha \cup Digits \cup {"_"}

\* the number of spaces inside an atom
InnerSpaces(c) ==
    IF c \in {"Phrase to learn", "phrase to learn", "What to improve",
              "Suggested Colloquial Phrase"} THEN 2
    ELSE IF c = "Corrected context" THEN 1 ELSE 0

\* corrector_output.split('---'): parts[0], and parts[1] when there is one
BeforeSeparator(s) ==
    LET i == Find(s, <<"-", "-", "-">>)
    IN  IF i = 0 THEN s ELSE SubSeq(s, 1, i - 1)

\* parts[1] with the whole output standing in for a missing second part
AfterSeparatorWhole(s) ==
    LET i == Find(s, <<"-", "-", "-">>)
        rest == SubSeq(s, i + 3, Len(s))
    IN  IF i = 0 THEN s ELSE SubSeq(rest, 1, IF Find(rest, <<"-", "-", "-">>) = 0
                                             THEN Len(rest)
                                             ELSE Find(rest, <<"-", "-", "-">>) - 1)

AfterSeparator(s) ==
    LET i == Find(s, <<"-", "-", "-">>)
        rest == SubSeq(s, i + 3, Len(s))
    IN  IF i = 0 THEN None ELSE BeforeSeparator(rest)

\* re.search(r'Phrase to learn:<<([^>]+)>>', b, re.IGNORECASE): the label
\* search without the \s* between the colon and the marker
LabelMarkerSearchNoSpace(b) ==
    LET at(i) == IF IsWord(At(b, i), "phrase to learn") /\ At(b, i + 1) = ":"
                 THEN MarkerAt(b, i + 2) ELSE None
        i == LeftMost({ j \in DOMAIN b : at(j) # None })
    IN  IF i = 0 THEN None ELSE at(i)

\* re.search(r'Phrase to learn:\s*<<([^>]+)>>', b, re.IGNORECASE): group 1
LabelMarkerSearch(b) ==
    LET at(i) == IF IsWord(At(b, i), "phrase to learn") /\ At(b, i + 1) = ":"
                 THEN MarkerAt(b, i + 2 + WsLen(b, i + 2)) ELSE None
        i == LeftMost({ j \in DOMAIN b : at(j) # None })
    IN  IF i = 0 THEN None ELSE at(i)

\* re.search(r'Phrase to learn:\s*"?([^\n"]+)"?', b, re.IGNORECASE): group 1
LabelPlainSearch(b) ==
    LET ks(i) == { k \in 0..WsLen(b, i + 2) : PlainAt(b, i + 2 + k) # None }
        at(i) == IF /\ IsWord(At(b, i), "phrase to learn") /\ At(b, i + 1) = ":"
                    /\ ks(i) # {}
                 THEN PlainAt(b, i + 2 + CHOOSE k \in ks(i) : \A x \in ks(i) : x <= k)
                 ELSE None
        i == LeftMost({ j \in DOMAIN b : at(j) # None })
    IN  IF i = 0 THEN None ELSE at(i)

\* whether re.search(r'Definition:\s*([^\n]+)', b, re.IGNORECASE) matches
DefinitionLabelled(b) ==
    \E i \in DOMAIN b :
        /\ IsWord(b[i], "definition") /\ At(b, i + 1) = ":"
        /\ \E k \in 0..WsLen(b, i + 2) : RunLen(b, i + 2 + k, {"\n"}) >= 1

\* re.search of o o ([^stop]+) c c: group 1 of the leftmost match, or None
PairSearch(b, o, c, stop) ==
    LET n(i) == RunLen(b, i + 2, stop)
        ok(i) == /\ At(b, i) = o /\ At(b, i + 1) = o /\ n(i) >= 1
                 /\ At(b, i + 2 + n(i)) = c /\ At(b, i + 3 + n(i)) = c
        i == LeftMost({ j \in DOMAIN b : ok(j) })
    IN  IF i = 0 THEN None ELSE SubSeq(b, i + 2, i + 1 + n(i))

Quotes == {"\"", "'"}

\* re.search(r'["\']([^"\']+)["\']', b): group 1 of the leftmost match
QuotedSearch(b) ==
    LET n(i) == RunLen(b, i + 1, Quotes)
        ok(i) == b[i] \in Quotes /\ n(i) >= 1 /\ At(b, i + 1 + n(i)) \in Quotes
        i == LeftMost({ j \in DOMAIN b : ok(j) })
    IN  IF i = 0 THEN None ELSE SubSeq(b, i + 1, i + n(i))

\* re.sub(r"\b(?:is|is:)$", "", s, flags=re.IGNORECASE).strip()
StripIs(s) ==
    LET n == Len(s)
        bound(i) == At(s, i - 1) \notin WordChars
    IN  IF n >= 1 /\ IsWord(s[n], "is") /\ bound(n)
        THEN Strip(SubSeq(s, 1, n - 1))
        ELSE IF n >= 2 /\ s[n] = ":" /\ IsWord(s[n - 1], "is") /\ bound(n - 1)
        THEN Strip(SubSeq(s, 1, n - 2))
        ELSE Strip(s)

\* re.sub(r'^\d+\.\s*', '', s), the full stop being optional when dot is FALSE
StripEnumeration(s, dot) ==
    LET d == SpanLen(s, 1, Digits)
        p == IF At(s, d + 1) = "." THEN 1 ELSE 0
    IN  IF d = 0 \/ (dot /\ p = 0) THEN s
        ELSE SubSeq(s, d + p + 1 + WsLen(s, d + p + 1), Len(s))

\* whether \(replaces[:\s]+[^)]+\) matches at position p
ReplacesAt(b, p) ==
    LET q == p + 2
        n == RunLen(b, q, {")"})
    IN  /\ At(b, p) = "(" /\ IsWord(At(b, p + 1), "replaces")
        /\ At(b, q) \in Whitespace \cup {":"}
        /\ n >= 2 /\ At(b, q + n) = ")"

\* re.search(r'([A-Za-z\'\- ]{2,})\s*\(replaces[:\s]+[^)]+\)', b,
\* re.IGNORECASE): group 1 of the leftmost match, or None
ParenPlainSearch(b) ==
    LET class == Alpha \cup {"'", "-", " "}
        n(i) == SpanLen(b, i, class)
        ok(i) == /\ n(i) >= 1
                 /\ CharLen(SubSeq(b, i, i + n(i) - 1)) >= 2
                 /\ ReplacesAt(b, i + n(i) + WsLen(b, i + n(i)))
        i == LeftMost({ j \in DOMAIN b : ok(j) })
    IN  IF i = 0 THEN None ELSE SubSeq(b, i, i + n(i) - 1)

\* re.search(r'\*\*?([^\*\(\n]+)\*\*?\s*\(replaces\s*\*([^\*)]+)\*\)', b,
\* re.IGNORECASE): group 1 of the leftmost match, or None
ParenMatchSearch(b) ==
    LET g(i) == IF At(b, i + 1) = "*" THEN i + 2 ELSE i + 1
        n(i) == RunLen(b, g(i), {"*", "(", "\n"})
        e(i) == IF At(b, g(i) + n(i) + 1) = "*"
                THEN g(i) + n(i) + 2 ELSE g(i) + n(i) + 1
        p(i) == e(i) + WsLen(b, e(i))
        r(i) == p(i) + 2 + WsLen(b, p(i) + 2)
        m(i) == RunLen(b, r(i) + 1, {"*", ")"})
        ok(i) == /\ b[i] = "*" /\ n(i) >= 1 /\ At(b, g(i) + n(i)) = "*"
                 /\ At(b, p(i)) = "(" /\ IsWord(At(b, p(i) + 1), "replaces")
                 /\ At(b, r(i)) = "*" /\ m(i) >= 1
                 /\ At(b, r(i) + 1 + m(i)) = "*"
                 /\ At(b, r(i) + 2 + m(i)) = ")"
        i == LeftMost({ j \in DOMAIN b : ok(j) })
    IN  IF i = 0 THEN None ELSE SubSeq(b, g(i), g(i) + n(i) - 1)

\* re.search(r'Suggested Colloquial Phrase[:\s]*\n?(.+)', b, re.IGNORECASE):
\* the position group 1 starts at, 0 when the pattern does not match
HeaderStart(b) ==
    LET s(i) == SpanLen(b, i + 1, Whitespace \cup {":"})
        \* after k characters of [:\s]*: \n? taken when it can be, then (.+)
        start(i, k) ==
            IF At(b, i + 1 + k) = "\n" /\ RunLen(b, i + 2 + k, {"\n"}) >= 1
            THEN i + 2 + k
            ELSE IF RunLen(b, i + 1 + k, {"\n"}) >= 1 THEN i + 1 + k ELSE 0
        ks(i) == { k \in 0..s(i) : start(i, k) # 0 }
        ok(i) == IsWord(b[i], "suggested colloquial phrase") /\ ks(i) # {}
        i == LeftMost({ j \in DOMAIN b : ok(j) })
    IN  IF i = 0 THEN 0
        ELSE start(i, CHOOSE k \in ks(i) : \A x \in ks(i) : x <= k)

\* re.sub(r'[\*`_\[\]]', '', line)
StripMarkup(line) ==
    SelectSeq(line, LAMBDA c : c \notin {"*", Grave, "_", "[", "]"})

\* the line after the header, stripped of its markup
HeaderLine(b) ==
    IF HeaderStart(b) = 0 THEN <<>>
    ELSE StripMarkup(Strip(RunFrom(b, HeaderStart(b), {"\n"})))

\* re.findall(r"[A-Za-z' ]{2,}", b)[-1]: the last run of two or more
\* characters of the class, None when there is none
LastToken(b) ==
    LET class == Alpha \cup {"'", " "}
        starts == { i \in DOMAIN b :
                      /\ b[i] \in class /\ At(b, i - 1) \notin class
                      /\ CharLen(SubSeq(b, i, i + SpanLen(b, i, class) - 1)) >= 2 }
        i == IF starts = {} THEN 0
             ELSE CHOOSE x \in starts : \A y \in starts : y <= x
    IN  IF i = 0 THEN None ELSE SubSeq(b, i, i + SpanLen(b, i, class) - 1)

\* len(candidate.split())
RECURSIVE WordCount(_, _)
WordCount(s, i) ==
    IF i > Len(s) THEN 0
    ELSE (IF s[i] \notin Whitespace /\ At(s, i - 1) \in Whitespace \cup {"EOF"}
          THEN 1 ELSE 0) + InnerSpaces(s[i]) + WordCount(s, i + 1)

\* extract_phrase_for_teaching: None, or the pair (phrase, corrected_text)
ExtractPhraseForTeaching(corrector_output) ==
    LET sep == AfterSeparator(corrector_output) # None
        corrected_text == Strip(IF sep THEN BeforeSeparator(corrector_output)
                                ELSE corrector_output)
        found(p) == <<p, corrected_text>>
    IN  Bind(IF sep THEN Strip(AfterSeparator(corrector_output)) ELSE <<>>,
             LAMBDA b :
        LET candidate == Strip(LastToken(b))
        IN
        IF ~Truthy(corrector_output) THEN None
        ELSE IF LabelMarkerSearch(b) # None THEN found(Strip(LabelMarkerSearch(b)))
        ELSE IF LabelPlainSearch(b) # None THEN found(Strip(LabelPlainSearch(b)))
        ELSE IF DefinitionLabelled(b) /\ MarkerSearch(b) # None
        THEN found(Strip(MarkerSearch(b)))
        ELSE IF QuotedSearch(b) # None
        THEN found(StripEnumeration(StripIs(Strip(QuotedSearch(b))), TRUE))
        ELSE IF PairSearch(b, "*", "*", {"*"}) # None
        THEN found(StripIs(Strip(PairSearch(b, "*", "*", {"*"}))))
        ELSE IF ParenPlainSearch(b) # None
        THEN found(StripEnumeration(StripIs(Strip(ParenPlainSearch(b))), FALSE))
        ELSE IF ParenMatchSearch(b) # None THEN found(Strip(ParenMatchSearch(b)))
        ELSE IF HeaderLine(b) # <<>> THEN found(HeaderLine(b))
        ELSE IF LastToken(b) # None /\ WordCount(candidate, 1) \in 2..4
        THEN found(candidate)
        ELSE None)

\* ------------------------------------------------------------------------
\* The batch normalizer  (tools/normalize_memory.py)
\* ------------------------------------------------------------------------
\* [:\s]
ColonSpace == Whitespace \cup {":"}

\* "?([^\n<"]+)"? attempted at position d: the captured group, or None
NoAngleAt(t, d) ==
    LET b == IF At(t, d) = "\"" /\ RunLen(t, d + 1, {"\n", "<", "\""}) >= 1
             THEN d + 1 ELSE d
        n == RunLen(t, b, {"\n", "<", "\""})
    IN  IF n >= 1 THEN SubSeq(t, b, b + n - 1) ELSE None

\* re.search(w + r'[:\s]*<<([^>]+)>>', t, re.IGNORECASE): group 1 of the
\* leftmost match, or None
SpanMarkerSearch(t, w) ==
    LET at(i) == IF IsWord(At(t, i), w)
                 THEN MarkerAt(t, i + 1 + SpanLen(t, i + 1, ColonSpace))
                 ELSE None
        i == LeftMost({ j \in DOMAIN t : at(j) # None })
    IN  IF i = 0 THEN None ELSE at(i)

\* re.search(w + r'[:\s]*"?([^\n<"]+)"?', t, re.IGNORECASE): group 1 of the
\* leftmost match, the span [:\s]* giving back as little as it has to
SpanPlainSearch(t, w) ==
    LET ks(i) == { k \in 0..SpanLen(t, i + 1, ColonSpace) :
                     NoAngleAt(t, i + 1 + k) # None }
        at(i) == IF IsWord(At(t, i), w) /\ ks(i) # {}
                 THEN NoAngleAt(t, i + 1 + CHOOSE k \in ks(i) :
                                                \A x \in ks(i) : x <= k)
                 ELSE None
        i == LeftMost({ j \in DOMAIN t : at(j) # None })
    IN  IF i = 0 THEN None ELSE at(i)

\* re.search(r'LESSON[:\s]*<?strong>?>?\s*([^<\n]+)', t, re.IGNORECASE):
\* group 1 of the leftmost match, or None
LessonStrongSearch(t) ==
    LET p(i) == i + 1 + SpanLen(t, i + 1, ColonSpace)
        q(i) == IF At(t, p(i)) = "<" THEN p(i) + 1 ELSE p(i)
        \* the closing marks taken (at most two), then the whitespace taken
        ways(i) == { x \in (0..2) \X (0..Len(t)) :
                       /\ x[1] <= SpanLen(t, q(i) + 1, {">"})
                       /\ x[2] <= WsLen(t, q(i) + 1 + x[1])
                       /\ RunLen(t, q(i) + 1 + x[1] + x[2], {"<", "\n"}) >= 1 }
        best(i) == CHOOSE x \in ways(i) :
                      \A y \in ways(i) :
                         x[1] > y[1] \/ (x[1] = y[1] /\ x[2] >= y[2])
        ok(i) == /\ IsWord(At(t, i), "lesson")
                 /\ IsWord(At(t, q(i)), "strong")
                 /\ ways(i) # {}
        i == LeftMost({ j \in DOMAIN t : ok(j) })
    IN  IF i = 0 THEN None
        ELSE RunFrom(t, q(i) + 1 + best(i)[1] + best(i)[2], {"<", "\n"})

\* re.search(r'Suggested colloquial phrase[:\s]*<strong>([^<]+)</strong>',
\* h, re.IGNORECASE): group 1 of the leftmost match, or None
SpanStrongSearch(h) ==
    LET at(i) == IF IsWord(At(h, i), "suggested colloquial phrase")
                 THEN StrongAt(h, i + 1 + SpanLen(h, i + 1, ColonSpace))
                 ELSE None
        i == LeftMost({ j \in DOMAIN h : at(j) # None })
    IN  IF i = 0 THEN None ELSE at(i)

\* `if m: return m.group(1).strip()`, the next rule otherwise
StripOrElse(g, else) == IF g # None THEN Strip(g) ELSE else

\* extract_canonical
ExtractCanonical(lesson_text, lesson_html, stored_phrase) ==
    StripOrElse(SpanMarkerSearch(lesson_text, "suggested colloquial phrase"),
    StripOrElse(SpanPlainSearch(lesson_text, "suggested colloquial phrase"),
    StripOrElse(SpanMarkerSearch(lesson_text, "phrase to learn"),
    StripOrElse(SpanPlainSearch(lesson_text, "phrase to learn"),
    StripOrElse(LessonStrongSearch(lesson_text),
    StripOrElse(SpanStrongSearch(lesson_html),
    StripOrElse(MarkerSearch(lesson_text),
    StripOrElse(StrongSearch(lesson_html),
                stored_phrase))))))))

\* re.search(w + r'[:\-\s]*([^\n\.]+)', t, re.IGNORECASE): group 1 of the
\* leftmost match, or None
SentenceAfter(t, w) ==
    LET ks(i) == { k \in 0..SpanLen(t, i + 1, ColonSpace \cup {"-"}) :
                     RunLen(t, i + 1 + k, {"\n", "."}) >= 1 }
        ok(i) == IsWord(At(t, i), w) /\ ks(i) # {}
        i == LeftMost({ j \in DOMAIN t : ok(j) })
    IN  IF i = 0 THEN None
        ELSE RunFrom(t, i + 1 + (CHOOSE k \in ks(i) : \A x \in ks(i) : x <= k),
                     {"\n", "."})

\* re.search(r'is usually defined as (.*?)\.', t, re.IGNORECASE): group 1 of
\* the leftmost match, or None
DefinedAs(t) ==
    LET ok(i) == /\ IsWord(At(t, i), "is usually defined as")
                 /\ At(t, i + 1) = " "
                 /\ At(t, i + 2 + RunLen(t, i + 2, {"\n", "."})) = "."
        i == LeftMost({ j \in DOMAIN t : ok(j) })
    IN  IF i = 0 THEN None ELSE RunFrom(t, i + 2, {"\n", "."})

\* extract_meaning: each pattern on the text, then on the html
ExtractMeaning(lesson_text, lesson_html, stored_meaning) ==
    StripOrElse(SentenceAfter(lesson_text, "definition"),
    StripOrElse(SentenceAfter(lesson_html, "definition"),
    StripOrElse(SentenceAfter(lesson_text, "meaning"),
    StripOrElse(SentenceAfter(lesson_html, "meaning"),
    StripOrElse(DefinedAs(lesson_text),
    StripOrElse(DefinedAs(lesson_html),
                stored_meaning))))))

\* clean_context
CleanContext(text) ==
    IF ~Truthy(text) THEN text
    ELSE Strip(StripEnumeration(ReplacePairFrom(text, 1, "*", "*", <<>>), TRUE))

\* dict.get(k, '')
GetOrEmpty(item, k) == IF k \in DOMAIN item THEN item[k] ELSE <<>>

\* entry.pop(k, None)
Pop(item, k) == [x \in DOMAIN item \ {k} |-> item[x]]

\* the body of the loop of normalize for one entry: the entry as it is left
\* and whether the pass counts it as changed
NormalizeEntry(entry) ==
    LET lesson_text == Or(Get(entry, "lesson_text"), <<>>)
        lesson_html == Or(Get(entry, "lesson_html"), <<>>)
        stored_phrase == GetOrEmpty(entry, "phrase")
        stored_meaning == GetOrEmpty(entry, "meaning")
        sc == Get(entry, "source_context")
        cc == Get(entry, "corrected_context")
    IN  Bind(ExtractCanonical(lesson_text, lesson_html, stored_phrase),
             LAMBDA canon :
        Bind(ExtractMeaning(lesson_text, lesson_html, stored_meaning),
             LAMBDA meaning :
        Bind(Truthy(canon) /\ canon # stored_phrase, LAMBDA newPhrase :
        Bind(Truthy(meaning) /\ meaning # stored_meaning, LAMBDA newMeaning :
        Bind(Truthy(sc) /\ (Contains(sc, <<"*", "*">>)
                              \/ Contains(sc, <<"Corrected">>)),
             LAMBDA raw :
        Bind(IF newPhrase THEN Put(entry, "phrase", canon) ELSE entry,
             LAMBDA e1 :
        Bind(IF newMeaning THEN Put(e1, "meaning", meaning) ELSE e1,
             LAMBDA e2 :
        Bind(IF raw THEN Pop(e2, "source_context")
             ELSE IF Truthy(sc) THEN Put(e2, "source_context", CleanContext(sc))
             ELSE e2,
             LAMBDA e3 :
            [entry |-> IF Truthy(cc)
                       THEN Put(e3, "corrected_context", CleanContext(cc))
                       ELSE e3,
             changed |-> newPhrase \/ newMeaning \/ raw]))))))))

\* the loop of normalize if it deleted the entries it counts as changed
\* instead of keeping them
NormalizeDataDropping(data) ==
    Bind([i \in DOMAIN data |-> NormalizeEntry(data[i])], LAMBDA r :
        [data |-> SelectSeq([i \in DOMAIN data |-> r[i].entry],
                            LAMBDA e : \E i \in DOMAIN data :
                                          r[i].entry = e /\ ~r[i].changed),
         changed |-> \E i \in DOMAIN data : r[i].changed])

\* the loop of normalize over data: the data as it is left and the flag
\* `changed` at the end of the pass
NormalizeData(data) ==
    Bind([i \in DOMAIN data |-> NormalizeEntry(data[i])], LAMBDA r :
        [data |-> [i \in DOMAIN data |-> r[i].entry],
         changed |-> \E i \in DOMAIN data : r[i].changed])

\* ------------------------------------------------------------------------
\* Inputs
\* ------------------------------------------------------------------------
Call(p, m, sc, cc, lt, lh) ==
    [phrase |-> p, meaning |-> m, source_context |-> sc,
     corrected_context |-> cc, lesson_text |-> lt, lesson_html |-> lh]

\* "Phrase to learn: <<B>>"
LessonB == <<"Phrase to learn", ":", " ", "<", "<", "B", ">", ">">>

\* "Phrase to learn: <strong>B</strong>"
LessonHtmlB ==
    <<"Phrase to learn", ":", " ", "<", "strong", ">", "B", "<", "/", "strong", ">">>

\* "Phrase to learn: "
LessonNoPhrase == <<"Phrase to learn", ":", " ">>

\* "<strong> ab</strong>"
HtmlAb == <<"<", "strong", ">", " ", "a", "b", "<", "/", "strong", ">">>

AddCalls ==
    { Call(<<"a", "b">>, <<"m">>, <<"c">>, <<>>, None, None),
      Call(<<" ", "A", "b">>, <<"n">>, <<"d">>, <<"c">>, None, None),
      Call(<<"a", "b">>, <<"m">>, None, None, LessonB, LessonHtmlB),
      Call(<<>>, <<"m">>, None, None, None, None),
      Call(<<" ">>, <<"m">>, None, <<"c">>, LessonNoPhrase, None),
      Call(None, None, None, None, None, HtmlAb) }

\* "Phrase to learn: " and a double quote, then a line marking <<K>>
LessonEmptyLabel ==
    <<"Phrase to learn", ":", " ", "\"", "\n", "<", "<", "K", ">", ">">>

\* "Phrase to learn: k <strong>j</strong>"
HtmlLabelStrong ==
    <<"Phrase to learn", ":", " ", "k", " ", "<", "strong", ">", "j", "<",
      "/", "strong", ">">>

\* the adds whose lesson the two resolvers read differently
ReviewCalls ==
    { Call(<<"j">>, <<"m">>, None, None, LessonEmptyLabel, None),
      Call(<<"j">>, <<"m">>, None, None, None, HtmlLabelStrong) }

\* a lesson in the layout the service is asked for
ResponseFull ==
    <<"Phrase to learn", ":", " ", "<", "<", "k", "j", ">", ">", "\n",
      "Definition", ":", " ", "j", "k", ".", "\n", "Examples", ":", "\n",
      "K", " ", "k", "j", " ", "j", "k", ".", "\n", "j", " ", "k", "j",
      " ", "k", "k", ".">>

\* a lesson that only names the phrase
ResponseBare ==
    <<"Phrase to learn", ":", " ", "<", "<", "k", "j", ">", ">">>

\* a lesson whose first example has two spaces in a row
ResponseSpaced ==
    <<"Phrase to learn", ":", " ", "<", "<", "k", "j", ">", ">", "\n",
      "Definition", ":", " ", "j", "k", ".", "\n", "Examples", ":", "\n",
      "K", " ", " ", "k", "j", " ", "j", "k", ".", "\n", "j", " ", "k",
      "j", " ", "k", "k", ".">>

\* what generate_content does: it returns a response with a text,
\* a response without a text, or raises
Text(t) == [kind |-> "text", text |-> t]
NoText == [kind |-> "text", text |-> None]
Raises == [kind |-> "raise"]

ServiceOutcomes ==
    { Text(ResponseFull), Text(ResponseBare), Text(ResponseSpaced), Text(<<>>),
      NoText, Raises }

\* the phrase and the context teach is called with
TeachRequests ==
    { [phrase |-> <<"k", "j">>, context |-> <<"K", " ", "k", "j", ".">>],
      [phrase |-> <<>>, context |-> <<"K", " ", "k", "j", ".">>] }

\* what TeacherAgent.run computes for each request and each text returned
\* with the phrase its add_phrase resolves
LessonTable ==
    { <<x[1], x[2], x[3], Resolved(x[3].call)>> :
        x \in { <<req, out, Lesson(req.phrase, req.context, out.text)>> :
                  req \in TeachRequests,
                  out \in { o \in ServiceOutcomes :
                              o.kind = "text" /\ o.text # None } } }

LessonOf(req, out) == CHOOSE x \in LessonTable : x[1] = req /\ x[2] = out

\* "Phrase to learn: <<kj>>", then a line "Usage: kj."
LessonUsage ==
    <<"Phrase to learn", ":", " ", "<", "<", "k", "j", ">", ">", "\n",
      "Usage", ":", " ", "k", "j", ".">>

\* the adds the lesson pipeline lists: those of the review calls and one
\* whose lesson shows the phrase in a usage line
LessonCalls ==
    ReviewCalls \cup {Call(<<"k", "j">>, <<"m">>, None, None, LessonUsage, None)}

\* adds whose contexts carry what the normalizer strips or drops, an add it
\* leaves alone, and the adds whose lesson it reads differently from the store
PassCalls ==
    ReviewCalls
    \cup { Call(<<"a">>, <<"m">>, None, <<"1", ".", " ", "c">>, None, None),
           Call(<<"b">>, <<"m">>, <<"*", "*", "c", "*", "*">>, None, None, None),
           Call(<<"a", "b">>, <<"m">>, <<"c">>, <<>>, None, None) }

Queries == {None, <<"j">>, <<" ", "M">>}

\* the phrase add_phrase resolves for each call the model makes
ResolvedOf ==
    [call \in AddCalls \cup LessonCalls \cup PassCalls |-> Resolved(call)]

Counts == (0 - 1)..MaxCount

\* a file written by an earlier version: its record has no meaning
LegacyFile ==
    JsonFile(<<[k \in {"phrase", "date_added"} |->
                  ToJson(IF k = "phrase" THEN <<"b">> ELSE GetTimestamp(0))]>>)

InitialFiles == {NoFile, Malformed, BadEncoding, LegacyFile}

PassFiles == {NoFile, Malformed, LegacyFile}

\* ------------------------------------------------------------------------
\* State
\* ------------------------------------------------------------------------
VARIABLES
    memory,     \* memory[s]: self.memory of the store of process s
    up,         \* up[s]: process s holds a constructed MemoryBankTool
    file,       \* memory_bank.json
    now,        \* the wall clock
    faults,     \* I/O failures so far
    last        \* the last call made: operation, store, arguments, result

vars == <<memory, up, file, now, faults, last>>

Init ==
    /\ memory = [s \in Stores |-> <<>>]
    /\ up = [s \in Stores |-> FALSE]
    /\ file \in InitialFiles
    /\ now = 0
    /\ faults = 0
    /\ last = [op |-> "none"]

\* MemoryBankTool(): process s (re)starts and hydrates its store
Construct(s) ==
    \E io \in {"ok", "ioerror"} :
        LET r == LoadMemory(file, io)
        IN  /\ io # "ok" => faults < MaxFaults /\ file.kind # "missing"
            /\ faults' = IF io = "ok" THEN faults ELSE faults + 1
            /\ up' = [up EXCEPT ![s] = (r.exc = "none")]
            /\ memory' = [memory EXCEPT ![s] = IF r.exc = "none" THEN r.val ELSE <<>>]
            /\ last' = [op |-> "init", store |-> s, io |-> io,
                        ret |-> IF r.exc = "none" THEN [kind |-> "ok"]
                                ELSE [kind |-> "raise", exc |-> r.exc]]
            /\ UNCHANGED <<file, now>>

\* add_phrase(...) on the store of process s
AddPhrase(s, call) ==
    \E final \in {ResolvedOf[call]} :
    \E mem \in {AddMemory(memory[s], final, call, GetTimestamp(now))} :
        /\ up[s]
        /\ \E io \in SaveOutcomes :
            /\ io # "ok" => faults < MaxFaults /\ final # <<>>
            /\ faults' = IF io = "ok" THEN faults ELSE faults + 1
            /\ memory' = [memory EXCEPT ![s] = mem]
            /\ file' = IF final = <<>> THEN file ELSE SaveMemory(file, mem, io)
            /\ last' = [op |-> "add", store |-> s, call |-> call,
                        ret |-> AddStatus(memory[s], final),
                        io |-> IF final = <<>> THEN "none" ELSE io]
        /\ UNCHANGED <<up, now>>

\* get_random_phrase(count) on the store of process s
GetRandomPhrase(s, count) ==
    /\ up[s]
    /\ \/ /\ Len(memory[s]) < count
          /\ last' = [op |-> "sample", store |-> s, count |-> count,
                      ret |-> NotEnough(memory[s], count)]
       \/ /\ Len(memory[s]) >= count
          /\ count < 0
          /\ last' = [op |-> "sample", store |-> s, count |-> count,
                      ret |-> [kind |-> "raise", exc |-> "ValueError"]]
       \/ /\ Len(memory[s]) >= count
          /\ count >= 0
          /\ \E sel \in Samples(memory[s], count) :
                last' = [op |-> "sample", store |-> s, count |-> count,
                         ret |-> RandomPhraseResult(memory[s], count, sel)]
    /\ UNCHANGED <<memory, up, file, now, faults>>

\* get_memory_stats() on the store of process s
GetMemoryStats(s) ==
    /\ up[s]
    /\ last' = [op |-> "stats", store |-> s, ret |-> MemoryStats(memory[s])]
    /\ UNCHANGED <<memory, up, file, now, faults>>

\* a second passes
Tick ==
    /\ now < MaxTime
    /\ now' = now + 1
    /\ last' = [op |-> "tick"]
    /\ UNCHANGED <<memory, up, file, faults>>

\* one process, the web application, uses the file
Next ==
    \/ Construct("web")
    \/ \E call \in AddCalls : AddPhrase("web", call)
    \/ \E count \in Counts : GetRandomPhrase("web", count)
    \/ GetMemoryStats("web")
    \/ Tick

Spec == Init /\ [][Next]_vars

\* the adds of two different phrases that the two processes race on
RaceCalls ==
    { Call(<<"a", "b">>, <<"m">>, <<"c">>, <<>>, None, None),
      Call(<<"a", "b">>, <<"m">>, None, None, LessonB, LessonHtmlB) }

\* the web application and the command line program use the file at once
RaceNext ==
    \/ \E s \in Stores : Construct(s)
    \/ \E s \in Stores, call \in RaceCalls : AddPhrase(s, call)

RaceSpec == Init /\ [][RaceNext]_vars


\* ------------------------------------------------------------------------
\* The lesson pipeline: resolve the teaching target, teach, list
\* ------------------------------------------------------------------------
\* a record of a stored file: phrase, meaning and date_added
StoredRecord(p, m) ==
    [k \in {"phrase", "meaning", "date_added"} |->
        ToJson(CASE k = "phrase" -> p
                 [] k = "meaning" -> m
                 [] k = "date_added" -> GetTimestamp(0))]

\* a file edited by hand: the phrase of its record starts with a space
UntrimmedFile == JsonFile(<<StoredRecord(<<" ", "k", "j">>, <<"m">>)>>)

LessonFiles == {NoFile, LegacyFile, UntrimmedFile}

\* what the corrector can answer
CorrectorOutputs ==
    { \* "K kj.\n---\nPhrase to learn: <<kj>>\nDefinition: jk"
      <<"K", " ", "k", "j", ".", "\n", "-", "-", "-", "\n", "Phrase to learn",
        ":", " ", "<", "<", "k", "j", ">", ">", "\n", "Definition", ":", " ",
        "j", "k">>,
      \* "k---'jj' **j** Phrase to learn: << K >>---j"
      <<"k", "-", "-", "-", "'", "j", "j", "'", " ", "*", "*", "j", "*", "*",
        " ", "Phrase to learn", ":", " ", "<", "<", " ", "K", " ", ">", ">",
        "-", "-", "-", "j">>,
      \* "k---Phrase to learn: "kj""
      <<"k", "-", "-", "-", "Phrase to learn", ":", " ", "\"", "k", "j", "\"">>,
      \* "k---j---Phrase to learn: <<kj>>"
      <<"k", "-", "-", "-", "j", "-", "-", "-", "Phrase to learn", ":", " ",
        "<", "<", "k", "j", ">", ">">>,
      \* "k --- "kj is" "j""
      <<"k", " ", "-", "-", "-", " ", "\"", "k", "j", " ", "is", "\"", " ",
        "\"", "j", "\"">>,
      \* "Phrase to learn: <<kj>>"
      <<"Phrase to learn", ":", " ", "<", "<", "k", "j", ">", ">">>,
      \* "Corrected context: K kj.\nWhat to improve: "kj" k j"
      <<"Corrected context", ":", " ", "K", " ", "k", "j", ".", "\n",
        "What to improve", ":", " ", "\"", "k", "j", "\"", " ", "k", " ", "j">>,
      <<>> }

\* str(e) alone: the failure handed on without the agent's error prefix
TeachErrorBare(out) ==
    <<IF out.kind = "raise" THEN "service unavailable"
      ELSE "expected string or bytes-like object, got 'NoneType'">>

\* f"Error in Teacher Agent: {e}"
TeachError(out) ==
    <<"Error in Teacher Agent: ",
      IF out.kind = "raise" THEN "service unavailable"
      ELSE "expected string or bytes-like object, got 'NoneType'">>

LessonInit ==
    /\ memory = [s \in Stores |-> <<>>]
    /\ up = [s \in Stores |-> FALSE]
    /\ file \in LessonFiles
    /\ now = 0
    /\ faults = 0
    /\ last = [op |-> "none"]

\* what extract_phrase_for_teaching returns for each corrector output
TargetTable == { <<out, ExtractPhraseForTeaching(out)>> : out \in CorrectorOutputs }

TargetOf(out) == (CHOOSE x \in TargetTable : x[1] = out)[2]

\* extract_phrase_for_teaching(corrector_output)
ExtractPhrase(out) ==
    /\ last' = [op |-> "extract", output |-> out, ret |-> TargetOf(out)]
    /\ UNCHANGED <<memory, up, file, now, faults>>

\* an add_phrase of a lesson on a store that is not full yet
AddLesson(s, call) ==
    /\ Len(memory[s]) < MaxRecords
    /\ AddPhrase(s, call)

\* TeacherAgent.run(phrase, source_context) with the store of process s, the
\* service answering with out
Teach(s, req, out) ==
    /\ up[s]
    /\ Len(memory[s]) < MaxRecords
    /\ IF out.kind = "text" /\ out.text # None
       THEN \E x \in {LessonOf(req, out)} :
            \E l \in {x[3]}, final \in {x[4]} :
            \E mem \in {AddMemory(memory[s], final, l.call, GetTimestamp(now))} :
                \E io \in SaveOutcomes :
                  /\ io # "ok" => faults < MaxFaults /\ final # <<>>
                  /\ faults' = IF io = "ok" THEN faults ELSE faults + 1
                  /\ memory' = [memory EXCEPT ![s] = mem]
                  /\ file' = IF final = <<>> THEN file
                             ELSE SaveMemory(file, mem, io)
                  /\ last' = [op |-> "teach", store |-> s, req |-> req,
                              out |-> out, calls |-> 1,
                              call |-> l.call, final |-> final,
                              wrote |-> [phrase |-> l.canonical,
                                         definition |-> l.definition,
                                         examples |-> l.examples],
                              added |-> AddStatus(memory[s], final),
                              ret |-> <<l.lesson_text, l.lesson_html>>]
       ELSE /\ last' = [op |-> "teach", store |-> s, req |-> req,
                        out |-> out, calls |-> 1,
                        ret |-> <<TeachError(out), None>>]
            /\ UNCHANGED <<memory, file, faults>>
    /\ UNCHANGED <<up, now>>

\* the records a store of the lesson pipeline can hold: those of the files
\* and those the adds make of them
LessonAdds ==
    { a \in { <<c, Resolved(c)>> : c \in LessonCalls }
             \cup { <<x[3].call, x[4]>> : x \in LessonTable } : a[2] # <<>> }

AfterAdd(S, adds) ==
    S \cup { AddMemory(<<item>>, a[2], a[1], GetTimestamp(0))[1] :
               item \in S, a \in adds }

RECURSIVE AddClosure(_, _)
AddClosure(S, adds) ==
    \* the adds are applied until no new record appears
    CHOOSE R \in { IF T = S THEN S ELSE AddClosure(T, adds) :
                     T \in {AfterAdd(S, adds)} } : TRUE

LessonRecords ==
    CHOOSE R \in { AddClosure({ JsonLoad(f.val)[1] :
                                  f \in { x \in LessonFiles : x.kind = "json" } }
                              \cup { NewEntry(a[2], a[1], GetTimestamp(0)) :
                                       a \in adds }, adds) :
                     adds \in {LessonAdds} } : TRUE

\* the adds of the pass calls with the phrase add_phrase resolves for them
PassAdds ==
    { a \in { <<c, Resolved(c)>> : c \in PassCalls } : a[2] # <<>> }

\* the records the adds and a normalizer pass make of the records S
AfterPass(S, adds) ==
    AfterAdd(S, adds) \cup { NormalizeEntry(item).entry : item \in S }

RECURSIVE PassClosure(_, _)
PassClosure(S, adds) ==
    CHOOSE R \in { IF T = S THEN S ELSE PassClosure(T, adds) :
                     T \in {AfterPass(S, adds)} } : TRUE

\* the records a store can hold when adds and normalizer passes alternate
PassRecords ==
    CHOOSE R \in { PassClosure({ JsonLoad(f.val)[1] :
                                   f \in { x \in PassFiles : x.kind = "json" } }
                               \cup { NewEntry(a[2], a[1], GetTimestamp(0)) :
                                        a \in adds }, adds) :
                     adds \in {PassAdds} } : TRUE

\* what _parse_lesson returns for each of these records
ParsedTable ==
    { <<item, ParseLesson(item)>> : item \in LessonRecords \cup PassRecords }

ParsedOf(item) == (CHOOSE x \in ParsedTable : x[1] = item)[2]

\* what _parse_lesson gets from _extract_examples for a record, before it
\* cleans and completes the examples
ResolvedExamples(item) ==
    ExtractExamples(Or(Get(item, "lesson_text"), <<>>),
                    Or(Or(ExtractCanonicalPhrase(item), Get(item, "phrase")),
                       <<>>),
                    item)

ExamplesTable ==
    { <<item, ResolvedExamples(item)>> : item \in LessonRecords \cup PassRecords }

ExamplesOf(item) == (CHOOSE x \in ExamplesTable : x[1] = item)[2]

\* ReviewAgent.search(query) over the parsed lessons: all of them for an empty
\* query, else those whose phrase and definition, lower-cased and joined by a
\* space, contain the query
SearchResults(parsed, query) ==
    Bind(Strip(Lower(Or(query, <<>>))), LAMBDA q :
        IF q = <<>> THEN parsed
        ELSE SelectSeq(parsed, LAMBDA item :
                Contains(Lower(item.phrase) \o <<" ">> \o Lower(item.definition),
                         q)))

\* ReviewAgent.list_phrases() over the store of process s
ListPhrases(s) ==
    /\ up[s]
    /\ last' = [op |-> "list", store |-> s,
                resolved |-> [i \in DOMAIN memory[s] |->
                                 ExamplesOf(memory[s][i])],
                ret |-> [i \in DOMAIN memory[s] |-> ParsedOf(memory[s][i])]]
    /\ UNCHANGED <<memory, up, file, now, faults>>

LessonNext ==
    \/ Construct("web")
    \/ \E out \in CorrectorOutputs : ExtractPhrase(out)
    \/ \E req \in TeachRequests, out \in ServiceOutcomes : Teach("web", req, out)
    \/ \E call \in LessonCalls : AddLesson("web", call)
    \/ ListPhrases("web")

LessonSpec == LessonInit /\ [][LessonNext]_vars

\* ------------------------------------------------------------------------
\* The quiz: generate_quiz over a loaded store
\* ------------------------------------------------------------------------
\* the stores a quiz is generated from: one record; two records; three
\* records, two of them with the same meaning and one with an empty one;
\* three records with different meanings; a record without a meaning
QuizFiles ==
    { NoFile,
      LegacyFile,
      JsonFile(<<StoredRecord(<<"a">>, <<"m">>)>>),
      JsonFile(<<StoredRecord(<<"a">>, <<"m">>), StoredRecord(<<"b">>, <<"n">>)>>),
      JsonFile(<<StoredRecord(<<"a">>, <<"m">>), StoredRecord(<<"b">>, <<"m">>),
                 StoredRecord(<<"c">>, <<>>)>>),
      JsonFile(<<StoredRecord(<<"a">>, <<"m">>), StoredRecord(<<"b">>, <<"n">>),
                 StoredRecord(<<"c">>, <<"k">>)>>) }

\* the values of num_choices; the callers use the default, 4
NumChoices == (0 - 1)..MaxChoices

QuizInit ==
    /\ memory = [s \in Stores |-> <<>>]
    /\ up = [s \in Stores |-> FALSE]
    /\ file \in QuizFiles
    /\ now = 0
    /\ faults = 0
    /\ last = [op |-> "none"]

\* ReviewAgent.generate_quiz(num_choices) over the store of process s:
\* random.choice picks a record, the first shuffle orders the distractors,
\* the second one the choices
GenerateQuiz(s, n) ==
    /\ up[s]
    /\ IF Len(memory[s]) < 1
       THEN last' = [op |-> "quiz", store |-> s, n |-> n, ret |-> QuizError]
       ELSE \E pick \in DOMAIN memory[s] :
            \E pool \in {Distractors(memory[s], CorrectPhrase(memory[s][pick]))} :
            \E k \in {Taken(n, pool)} :
            \E sel \in Orderings(pool, k), perm \in Orderings(1..(k + 1), k + 1) :
                last' = [op |-> "quiz", store |-> s, n |-> n, pick |-> pick,
                         ret |-> QuizQuestion(memory[s], pick, sel, perm)]
    /\ UNCHANGED <<memory, up, file, now, faults>>

QuizNext ==
    \/ Construct("web")
    \/ \E n \in NumChoices : GenerateQuiz("web", n)

QuizSpec == QuizInit /\ [][QuizNext]_vars

\* ------------------------------------------------------------------------
\* The life of a record: add, the read operations and the normalizer pass
\* ------------------------------------------------------------------------
PassInit ==
    /\ memory = [s \in Stores |-> <<>>]
    /\ up = [s \in Stores |-> FALSE]
    /\ file \in PassFiles
    /\ now = 0
    /\ faults = 0
    /\ last = [op |-> "none"]

\* ReviewAgent.search(query) over the store of process s
Search(s, query) ==
    /\ up[s]
    /\ last' = [op |-> "search", store |-> s, query |-> query,
                ret |-> SearchResults([i \in DOMAIN memory[s] |->
                                          ParsedOf(memory[s][i])], query)]
    /\ UNCHANGED <<memory, up, file, now, faults>>

\* normalize(): one pass of the script over the backing file
Normalize ==
    /\ CASE file.kind = "missing" ->
              /\ last' = [op |-> "normalize", writes |-> 0,
                          ret |-> [kind |-> "not_found"]]
              /\ UNCHANGED <<file, faults>>
         [] file.kind \in {"malformed", "badutf8"} ->
              /\ last' = [op |-> "normalize", writes |-> 0,
                          ret |-> [kind |-> "raise",
                                   exc |-> ReadFile(file, "ok").exc]]
              /\ UNCHANGED <<file, faults>>
         [] file.kind = "json" ->
              \E data \in {JsonLoad(file.val)} :
              \E r \in {NormalizeData(data)} :
                  IF r.changed
                  THEN \E io \in SaveOutcomes :
                         /\ io # "ok" => faults < MaxFaults
                         /\ faults' = IF io = "ok" THEN faults ELSE faults + 1
                         /\ file' = SaveMemory(file, r.data, io)
                         /\ last' = [op |-> "normalize", writes |-> 1,
                                     before |-> data, after |-> r.data, io |-> io,
                                     ret |-> IF io = "ok" THEN [kind |-> "saved"]
                                             ELSE [kind |-> "raise",
                                                   exc |-> "IOError"]]
                  ELSE /\ last' = [op |-> "normalize", writes |-> 0,
                                   before |-> data, after |-> r.data,
                                   io |-> "none",
                                   ret |-> [kind |-> "no_changes"]]
                       /\ UNCHANGED <<file, faults>>
    /\ UNCHANGED <<memory, up, now>>

PassNext ==
    \/ Construct("web")
    \/ \E call \in PassCalls : AddLesson("web", call)
    \/ \E count \in Counts : GetRandomPhrase("web", count)
    \/ GetMemoryStats("web")
    \/ ListPhrases("web")
    \/ \E query \in Queries : Search("web", query)
    \/ \E n \in NumChoices : GenerateQuiz("web", n)
    \/ Normalize

PassSpec == PassInit /\ [][PassNext]_vars

\* ------------------------------------------------------------------------
\* Properties
\* ------------------------------------------------------------------------
\* the phrase key of the store: the phrase lower-cased and trimmed
PhraseKey(p) == Strip(Lower(IF p = None THEN <<>> ELSE p))

KeysOf(mem) == { PhraseKey(Get(mem[i], "phrase")) : i \in DOMAIN mem }

NoSharedKey(mem) ==
    \A i, j \in DOMAIN mem :
        i # j => PhraseKey(Get(mem[i], "phrase")) # PhraseKey(Get(mem[j], "phrase"))

\* the records of mem stored under the key of phrase p
Holders(mem, p) ==
    { i \in DOMAIN mem : PhraseKey(Get(mem[i], "phrase")) = PhraseKey(p) }

Stored(ret) == ret.kind \in {"added", "updated"}

\* C1: an add on a store in which no two records share a phrase key leaves
\* no two records sharing a phrase key, and an add whose resolved phrase
\* matches the key of a record does not append a record.
C1_AddKeepsKeysUnique ==
    [][last'.op = "add" =>
        LET s == last'.store
            p == ResolvedOf[last'.call]
        IN  /\ NoSharedKey(memory[s]) => NoSharedKey(memory'[s])
            /\ (p # <<>> /\ Holders(memory[s], p) # {})
                  => Len(memory'[s]) = Len(memory[s])]_vars

\* an add was merged into a record stored under another casing of its phrase
C1_Witness ==
    /\ last.op = "add"
    /\ last.ret.kind = "updated"
    /\ Len(memory[last.store]) > 1
    /\ \E i \in Holders(memory[last.store], last.ret.phrase) :
          memory[last.store][i]["phrase"] # last.ret.phrase

\* C2: re-adding a phrase whose resolved phrase is already a key of the
\* store with a non-empty meaning sets the meaning of that record, sets its
\* date_added to the current time and leaves the count of stats unchanged.
C2_ReAddUpdatesMeaning ==
    [][(last'.op = "add" /\ Truthy(last'.call.meaning)) =>
        LET s == last'.store
            p == ResolvedOf[last'.call]
        IN  (p # <<>> /\ Holders(memory[s], p) # {}) =>
              /\ Len(memory'[s]) = Len(memory[s])
              /\ MemoryStats(memory'[s]) = MemoryStats(memory[s])
              /\ \A i \in Holders(memory[s], p) :
                    /\ Get(memory'[s][i], "meaning") = last'.call.meaning
                    /\ Get(memory'[s][i], "date_added") = GetTimestamp(now)]_vars

\* a record received a meaning and a later date from a second add
C2_Witness ==
    /\ last.op = "add"
    /\ last.ret.kind = "updated"
    /\ now > 0
    /\ \E i \in Holders(memory[last.store], last.ret.phrase) :
          /\ Truthy(last.call.meaning)
          /\ memory[last.store][i]["meaning"] = last.call.meaning
          /\ memory[last.store][i]["date_added"] = GetTimestamp(now)

\* C3: after an add that resolved the non-empty phrase p, the record found
\* under the key of p has a phrase field equal to p character for character.
C3_StoredPhraseIsResolved ==
    (last.op = "add" /\ Stored(last.ret)) =>
        LET mem == memory[last.store]
            p == ResolvedOf[last.call]
        IN  /\ Holders(mem, p) # {}
            /\ \A i \in Holders(mem, p) : Get(mem[i], "phrase") = p

MergeFields ==
    {"meaning", "source_context", "corrected_context", "lesson_text", "lesson_html"}

\* C4: when add matches a record, each of the five fields supplied non-empty
\* replaces the stored value, each supplied empty or absent leaves the stored
\* value as it was, and every other record is unchanged.
C4_MergeFrame ==
    [][(last'.op = "add" /\ last'.ret.kind = "updated") =>
        LET s == last'.store
            call == last'.call
            p == ResolvedOf[last'.call]
        IN  \A i \in DOMAIN memory[s] :
              IF i \in Holders(memory[s], p)
              THEN \A f \in MergeFields :
                     IF Truthy(call[f])
                     THEN Get(memory'[s][i], f) = call[f]
                     ELSE /\ (f \in DOMAIN memory'[s][i]) = (f \in DOMAIN memory[s][i])
                          /\ Get(memory'[s][i], f) = Get(memory[s][i], f)
              ELSE memory'[s][i] = memory[s][i]]_vars

\* the calls with an empty or whitespace-only phrase and no phrase in the lesson
NoPhraseOf ==
    [call \in AddCalls |->
        /\ ExtractCanonicalFromLesson(call.lesson_text, call.lesson_html) = None
        /\ (call.phrase = None \/ Strip(call.phrase) = <<>>)]

\* C5: an add with no phrase returns the 'no valid phrase' status and leaves
\* the collection and the file unchanged; every record an add appends has a
\* non-empty, trimmed phrase.
C5_EmptyPhraseRejected ==
    [][last'.op = "add" =>
        LET s == last'.store
        IN  /\ NoPhraseOf[last'.call] =>
                /\ last'.ret.kind = "no_valid_phrase"
                /\ memory' = memory
                /\ file' = file
            /\ \A i \in DOMAIN memory'[s] \ DOMAIN memory[s] :
                LET ph == Get(memory'[s][i], "phrase")
                IN  ph # None /\ ph # <<>> /\ Strip(ph) = ph]_vars

\* a whitespace-only phrase with a lesson that names no phrase was rejected
C5_Witness ==
    /\ last.op = "add"
    /\ last.ret.kind = "no_valid_phrase"
    /\ last.call.phrase = <<" ">>
    /\ Truthy(last.call.lesson_text)
    /\ memory[last.store] # <<>>

\* the file is a JSON array from which a store hydrates exactly mem
FileHolds(mem) ==
    /\ file.kind = "json"
    /\ Len(file.val) = Len(mem)
    /\ LoadMemory(file, "ok") = [exc |-> "none", val |-> mem]

C7_RewriteLosesOtherUpdate ==
    [][(last'.op = "add" /\ last'.io = "ok") =>
        LET s == last'.store
        IN  \A t \in Stores \ {s} : \A i \in DOMAIN memory[t] :
              LET k == PhraseKey(Get(memory[t][i], "phrase"))
              IN  (up[t] /\ k \notin KeysOf(memory[s])
                         /\ k # PhraseKey(ResolvedOf[last'.call]))
                    => /\ file'.kind = "json"
                       /\ k \notin KeysOf(JsonLoad(file'.val))]_vars

\* both stores added one phrase without any I/O failure and the file lacks
\* the phrase of the store that wrote first
C7_LostUpdate ==
    /\ faults = 0
    /\ last.op = "add"
    /\ last.ret.kind = "added"
    /\ file.kind = "json"
    /\ Len(memory[last.store]) = 1
    /\ \E t \in Stores \ {last.store} :
          /\ up[t]
          /\ Len(memory[t]) = 1
          /\ PhraseKey(memory[t][1]["phrase"]) \notin KeysOf(JsonLoad(file.val))

\* C8: when the file exists but is unreadable or is not valid JSON, startup
\* completes without raising, the collection is empty and stats reports 0.
C8_BadFileStartsEmpty ==
    (/\ last.op = "init"
     /\ file.kind # "missing"
     /\ (last.io = "ioerror" \/ file.kind \in {"malformed", "badutf8"}))
        => /\ last.ret.kind = "ok"
           /\ up[last.store]
           /\ memory[last.store] = <<>>
           /\ MemoryStats(memory[last.store]).count = 0

\* C9: sample(count) on a store with fewer than count records returns a
\* single-element list with an error descriptor; otherwise it returns count
\* views of pairwise distinct stored records, each with phrase and meaning
\* only, and the store is unchanged.
C9_SampleResult ==
    [][last'.op = "sample" =>
        LET mem == memory[last'.store]
            n == last'.count
        IN  /\ memory' = memory
            /\ file' = file
            /\ last'.ret.kind = "list"
            /\ IF Len(mem) < n
               THEN /\ Len(last'.ret.items) = 1
                    /\ "error" \in DOMAIN last'.ret.items[1]
               ELSE /\ Len(last'.ret.items) = n
                    /\ \E sel \in Samples(mem, n) :
                          \A i \in 1..n :
                             last'.ret.items[i] =
                                [phrase |-> Get(mem[sel[i]], "phrase"),
                                 meaning |-> Get(mem[sel[i]], "meaning")]]_vars

\* C10: add, sample and stats return a value and never raise.
C10_OperationsNeverRaise ==
    last.op \in {"add", "sample", "stats"} => last.ret.kind # "raise"

\* the value of a rule of a cascade after trimming, empty when the rule
\* does not match
Trimmed(v) == IF v = None THEN <<>> ELSE Strip(v)

\* the first value of vals that is not empty, empty when there is none
RECURSIVE FirstNonEmpty(_)
FirstNonEmpty(vals) ==
    IF vals = <<>> THEN <<>>
    ELSE IF Head(vals) # <<>> THEN Head(vals)
    ELSE FirstNonEmpty(Tail(vals))

\* the values of the five rules of resolve_phrase for a record, in order:
\* labelled line of the text, marked span of the text, strong span of the
\* HTML, labelled line of the HTML without its tags, stored phrase
PhraseRules(item) ==
    LET text == Or(Get(item, "lesson_text"), <<>>)
        html == Or(Get(item, "lesson_html"), <<>>)
    IN  <<Trimmed(LabelSearch(text)), Trimmed(MarkerSearch(text)),
          Trimmed(StrongSearch(html)), Trimmed(LabelSearch(StripTags(html))),
          Trimmed(Get(item, "phrase"))>>

\* C11: the phrase the lesson parser resolves for a record is the trimmed
\* value of the first of the five rules whose value is not empty after
\* trimming.
C11_FirstNonEmptyRuleTrimmed ==
    last.op = "list" =>
        \A i \in DOMAIN last.ret :
            last.ret[i].phrase = FirstNonEmpty(PhraseRules(memory[last.store][i]))

\* C12: the phrase under which an add stores its record has the key of the
\* phrase the resolver of the lesson parser returns for the lesson_text and
\* lesson_html of the call with its phrase as the fallback.
C12_AddKeyIsReviewPhrase ==
    (last.op = "add" /\ Stored(last.ret)) =>
        PhraseKey(last.ret.phrase) = PhraseKey(ExtractCanonicalPhrase(last.call))

\* C13: the examples of every lesson the parser derives and the examples
\* every teaching step writes are at most 2, and exactly 2 when the
\* canonical phrase is not empty.
C13_TwoExamples ==
    /\ last.op = "list" =>
          \A i \in DOMAIN last.ret :
              /\ Len(last.ret[i].examples) <= 2
              /\ last.ret[i].phrase # <<>> => Len(last.ret[i].examples) = 2
    /\ (last.op = "teach" /\ "wrote" \in DOMAIN last) =>
          /\ Len(last.wrote.examples) <= 2
          /\ last.wrote.phrase # <<>> => Len(last.wrote.examples) = 2

\* a record without any example is listed with the two fabricated sentences
C13_Witness ==
    /\ last.op = "list"
    /\ \E i \in DOMAIN last.ret :
          /\ last.ret[i].phrase # <<>>
          /\ ExtractExamples(Or(Get(memory[last.store][i], "lesson_text"), <<>>),
                             last.ret[i].phrase, memory[last.store][i]) = <<>>
          /\ last.ret[i].examples = <<FillerOne(last.ret[i].phrase),
                                      FillerTwo(last.ret[i].phrase)>>

\* whether the word w occurs in the text t, in any casing
HasWord(t, w) == \E i \in DOMAIN t : LowerChar(t[i]) = w

\* a record whose lesson text yields no definition and that has no meaning
\* to fall back on
NoDefinitionSource(item) ==
    LET t == Or(Get(item, "lesson_text"), <<>>)
        p == Or(Get(item, "phrase"), <<>>)
    IN  /\ ~HasWord(t, "definition")
        /\ Or(Get(item, "meaning"), <<>>) = <<>>
        /\ p = <<>> \/ ~Contains(Lower(t), Lower(p))

\* what follows "Definition: " on the Definition line of a standardized lesson
DefinitionLine(t) ==
    LET i == CHOOSE i \in DOMAIN t :
                 t[i] = "Definition" /\ At(t, i + 1) = ":" /\ At(t, i + 2) = " "
    IN  SubSeq(t, i + 3, i + 2 + RunLen(t, i + 3, {"\n"}))

\* C14: a lesson without a definition and without a meaning to fall back on
\* is delivered with the empty definition: by the lesson parser, and by the
\* teaching step in the meaning and in the Definition line it stores.
C14_NoFabricatedDefinition ==
    /\ last.op = "list" =>
          \A i \in DOMAIN last.ret :
              NoDefinitionSource(memory[last.store][i])
                  => last.ret[i].definition = <<>>
    /\ (last.op = "teach" /\ "wrote" \in DOMAIN last
            /\ ~HasWord(last.out.text, "definition")) =>
          /\ last.wrote.definition = <<>>
          /\ last.call.meaning = <<>>
          /\ DefinitionLine(last.call.lesson_text) = <<>>

Min(a, b) == IF a < b THEN a ELSE b

\* a question was generated
Asked == last.op = "quiz" /\ last.ret.kind = "quiz"

\* a store as add_phrase writes it: every record has a phrase, no two
\* records share a phrase key
WrittenByAdd(mem) ==
    /\ NoSharedKey(mem)
    /\ \A i \in DOMAIN mem : PhraseKey(Get(mem[i], "phrase")) # <<>>

\* C15: the choices of a question generated with num_choices n number
\* min(n, number of records of the store).
C15_ChoicesLength ==
    Asked => Len(last.ret.choices) = Min(last.n, Len(memory[last.store]))

\* C15 as amended: on a store as add_phrase writes it the choices number
\* min(n, number of records) for n >= 1, and 1 for n <= 0.
C15_ChoicesLengthFromOne ==
    (Asked /\ WrittenByAdd(memory[last.store])) =>
        Len(last.ret.choices) =
            IF last.n >= 1 THEN Min(last.n, Len(memory[last.store])) ELSE 1

\* a question with the default num_choices over a smaller store offers as
\* many choices as the store has records
C15_Witness ==
    /\ Asked
    /\ WrittenByAdd(memory[last.store])
    /\ last.n = 4
    /\ Len(memory[last.store]) = 3
    /\ Len(last.ret.choices) = 3

\* the meaning of the record a question was generated for
PickedMeaning == Or(Get(memory[last.store][last.pick], "meaning"), <<>>)

\* no other record of the store has the meaning of the picked record
MeaningIsUnique ==
    \A i \in DOMAIN memory[last.store] :
        i # last.pick =>
            Or(Get(memory[last.store][i], "meaning"), <<>>) # PickedMeaning

\* C16: in every question the meaning of the picked record is among the
\* choices exactly once when no other record has that meaning, and
\* correct_index is a position of choices that holds that meaning.
C16_CorrectChoice ==
    Asked =>
        /\ MeaningIsUnique =>
              Cardinality({ j \in DOMAIN last.ret.choices :
                              last.ret.choices[j] = PickedMeaning }) = 1
        /\ last.ret.correct_index \in 0..(Len(last.ret.choices) - 1)
        /\ last.ret.choices[last.ret.correct_index + 1] = PickedMeaning

\* the shuffle put the meaning of the picked record last among three choices
C16_Witness ==
    /\ Asked
    /\ MeaningIsUnique
    /\ Len(last.ret.choices) = 3
    /\ last.ret.correct_index = 2
    /\ last.ret.choices[3] = PickedMeaning

\* the positions of the choices that hold the meaning of the picked record
CorrectPositions ==
    { j \in DOMAIN last.ret.choices : last.ret.choices[j] = PickedMeaning }

\* the meaning of the picked record is empty, or a distractor has its text
Unscorable == PickedMeaning = <<>> \/ Cardinality(CorrectPositions) > 1

\* C17: correct_index is -1 when the meaning of the picked record is empty
\* or a distractor has the same meaning text.
C17_MinusOneWhenUnscorable ==
    (Asked /\ Unscorable) => last.ret.correct_index = 0 - 1

\* C17 as amended: correct_index is never -1; when the meaning of the picked
\* record is empty or a distractor has the same text, it is the first
\* position of choices that holds that text.
C17_FirstPositionWhenUnscorable ==
    Asked =>
        /\ last.ret.correct_index # 0 - 1
        /\ Unscorable =>
              \A j \in CorrectPositions : last.ret.correct_index + 1 <= j

\* a question for a record with an empty meaning, and one where a
\* distractor before the correct choice has its text: both have an index
C17_Witness ==
    /\ Asked
    /\ Len(last.ret.choices) >= 2
    /\ \/ PickedMeaning = <<>> /\ last.ret.correct_index > 0
       \/ PickedMeaning # <<>> /\ Cardinality(CorrectPositions) = 2
                               /\ last.ret.correct_index >= 0

\* ------------------------------------------------------------------------
\* C18
\* ------------------------------------------------------------------------
Separator == <<"-", "-", "-">>

\* the text after the first separator of t
AfterFirst(t) == SubSeq(t, Find(t, Separator) + 3, Len(t))

\* the text between the first and the second separator of t (to the end of
\* t when there is no second one)
SuggestionBlock(t) ==
    IF Find(AfterFirst(t), Separator) = 0 THEN AfterFirst(t)
    ELSE SubSeq(AfterFirst(t), 1, Find(AfterFirst(t), Separator) - 1)

LearnMarker == <<"Phrase to learn", ":", " ", "<", "<">>

\* the text that follows "Phrase to learn: <<" in b
AfterLearnMarker(b) == SubSeq(b, Find(b, LearnMarker) + 5, Len(b))

\* the X of the first "Phrase to learn: <<X>>" of b, None when b has none
MarkedPhrase(b) ==
    IF Find(b, LearnMarker) = 0 \/ Find(AfterLearnMarker(b), <<">", ">">>) = 0
    THEN None
    ELSE SubSeq(AfterLearnMarker(b), 1,
                Find(AfterLearnMarker(b), <<">", ">">>) - 1)

\* the corrector output has a separator and its suggestion block marks a
\* phrase: a non-empty X without a closing mark inside
MarksPhrase(t) ==
    /\ Find(t, Separator) # 0
    /\ MarkedPhrase(SuggestionBlock(t)) \notin {None, <<>>}
    /\ \A i \in DOMAIN MarkedPhrase(SuggestionBlock(t)) :
           MarkedPhrase(SuggestionBlock(t))[i] # ">"

\* C18: whenever the corrector output contains the separator and the block
\* between the first and the second separator contains
\* "Phrase to learn: <<X>>", extract_phrase_for_teaching returns X trimmed
\* with the trimmed text before the first separator, whatever else the
\* block holds that a later rule of the cascade would match.
C18_MarkedPhraseWins ==
    (last.op = "extract" /\ MarksPhrase(last.output))
        => last.ret = <<Strip(MarkedPhrase(SuggestionBlock(last.output))),
                        Strip(SubSeq(last.output, 1,
                                     Find(last.output, Separator) - 1))>>

\* the label wins over the quoted span and the bold span before it in the
\* block, and the text after the second separator is left out
C18_Witness ==
    /\ last.op = "extract"
    /\ MarksPhrase(last.output)
    /\ Find(SuggestionBlock(last.output), <<"'", "j", "j", "'">>) # 0
    /\ Find(AfterFirst(last.output), Separator) # 0
    /\ last.ret = <<<<"K">>, <<"k">>>>

\* ------------------------------------------------------------------------
\* C19
\* ------------------------------------------------------------------------
\* the step is a teach during which the text-generation service raised
ServiceRaised == last'.op = "teach" /\ last'.out.kind = "raise"

\* C19: when the text-generation service raises during teach, teach returns
\* (error string, None) instead of raising, the service has been called
\* exactly once, and the store's in-memory collection and its backing file
\* are unchanged.
C19_ServiceFailureIsReturned ==
    [][ServiceRaised =>
          /\ Len(last'.ret) = 2
          /\ last'.ret[1] # None
          /\ last'.ret[1][1] = "Error in Teacher Agent: "
          /\ last'.ret[2] = None
          /\ last'.calls = 1
          /\ memory' = memory
          /\ file' = file]_vars

\* the service raised on a store that holds a record read from its file
C19_Witness ==
    /\ last.op = "teach"
    /\ last.out.kind = "raise"
    /\ last.ret[2] = None
    /\ memory[last.store] # <<>>
    /\ file.kind = "json"

\* ------------------------------------------------------------------------
\* C20
\* ------------------------------------------------------------------------
\* the state follows a teach that wrote a phrase and two examples into a
\* lesson and stored it
TaughtAndStored ==
    /\ last.op = "teach"
    /\ "wrote" \in DOMAIN last
    /\ last.final # <<>>
    /\ last.wrote.phrase # <<>>
    /\ Len(last.wrote.examples) = 2

\* the records of the store that hold the lesson the teach wrote
StoredLessons ==
    { i \in DOMAIN memory[last.store] :
        /\ "lesson_text" \in DOMAIN memory[last.store][i]
        /\ memory[last.store][i]["lesson_text"] = last.call.lesson_text }

\* C20: for every phrase, definition and pair of examples the teaching step
\* writes into the standardized lesson layout, _parse_lesson applied to the
\* record stored from that lesson recovers exactly that phrase, that
\* definition and those two examples in the same order.
C20_RoundTrip ==
    TaughtAndStored =>
        /\ StoredLessons # {}
        /\ \A i \in StoredLessons :
             /\ ParsedOf(memory[last.store][i]).phrase = last.wrote.phrase
             /\ ParsedOf(memory[last.store][i]).definition = last.wrote.definition
             /\ ParsedOf(memory[last.store][i]).examples = last.wrote.examples

\* ------------------------------------------------------------------------
\* C21
\* ------------------------------------------------------------------------
PassFields == {"phrase", "meaning", "source_context", "corrected_context"}

\* the pass read the records and left one of their fields other than it was
PassChangedField ==
    /\ last.op = "normalize"
    /\ "before" \in DOMAIN last
    /\ \E i \in DOMAIN last.before, k \in PassFields :
          Get(last.before[i], k) # Get(last.after[i], k)

\* C21: a normalizer pass rewrites the backing file exactly once, at its end,
\* if it changed at least one of the fields phrase, meaning, source_context
\* and corrected_context of a record, a pass whose only change is noise
\* stripped from a context field included, and does not write the file when
\* no record changed.
C21_WritesIffChanged ==
    last.op = "normalize" =>
        last.writes = IF PassChangedField THEN 1 ELSE 0

\* ------------------------------------------------------------------------
\* C22
\* ------------------------------------------------------------------------
ReadOps == {"sample", "stats", "list", "search", "quiz"}

StoreOps == ReadOps \cup {"add", "normalize"}

\* the add of this step is made on store s and resolves to a key no record
\* of it holds
AddsNewKey(s) ==
    /\ last'.op = "add"
    /\ last'.store = s
    /\ PhraseKey(ResolvedOf[last'.call]) # <<>>
    /\ Holders(memory[s], ResolvedOf[last'.call]) = {}

\* C22: across add, sample, stats, list_phrases, search, generate_quiz and
\* normalizer passes the number of stored records never decreases: only an
\* add that resolves to a new key changes it, by exactly one, and the read
\* operations leave the collection and the backing file unchanged; a pass
\* that rewrites the file writes as many records as it read.
C22_RecordsNeverDeleted ==
    [][last'.op \in StoreOps =>
        /\ \A s \in Stores :
             /\ Len(memory'[s]) >= Len(memory[s])
             /\ Len(memory'[s]) # Len(memory[s]) =>
                    AddsNewKey(s) /\ Len(memory'[s]) = Len(memory[s]) + 1
             /\ AddsNewKey(s) => Len(memory'[s]) = Len(memory[s]) + 1
        /\ last'.op \in ReadOps => memory' = memory /\ file' = file
        /\ (last'.op = "normalize" /\ file'.kind = "json") =>
               file.kind = "json" /\ Len(file'.val) = Len(file.val)]_vars

\* a pass rewrote the file of a store that holds two records
C22_Witness ==
    /\ last.op = "normalize"
    /\ last.writes = 1
    /\ file.kind = "json"
    /\ Len(file.val) = 2
    /\ Len(memory["web"]) = 2

\* ------------------------------------------------------------------------
\* C23
\* ------------------------------------------------------------------------
\* C23: no example the example resolver returns, from any stage of its
\* cascade, is shorter than 6 characters after cleanup.
C23_NoShortExample ==
    last.op = "list" =>
        \A i \in DOMAIN last.resolved :
            \A k \in DOMAIN last.resolved[i] :
                CharLen(last.resolved[i][k]) >= 6

\* ------------------------------------------------------------------------
\* C24
\* ------------------------------------------------------------------------
\* the positions of the quote characters of b
QuoteMarks(b) == { i \in DOMAIN b : b[i] \in {"\"", "'"} }

\* the k-th greatest element of the set of positions S
RECURSIVE FromLast(_, _)
FromLast(S, k) ==
    LET m == CHOOSE x \in S : \A y \in S : y <= x
    IN  IF k = 1 THEN m ELSE FromLast(S \ {m}, k - 1)

\* the text between the last two quote characters of b
LastQuoted(b) ==
    SubSeq(b, FromLast(QuoteMarks(b), 2) + 1, FromLast(QuoteMarks(b), 1) - 1)

\* the block has neither a 'Phrase to learn' label nor an emphasis marker and
\* holds two or more quoted spans, the last of which is a plain phrase: not
\* empty, with no trailing "is" and no leading digit to strip
QuotedSpansOnly(t) ==
    /\ Find(t, Separator) # 0
    /\ \A i \in DOMAIN SuggestionBlock(t) :
          /\ LowerChar(SuggestionBlock(t)[i]) # "phrase to learn"
          /\ SuggestionBlock(t)[i] # "<"
    /\ Cardinality(QuoteMarks(SuggestionBlock(t))) \in {4, 6}
    /\ Strip(LastQuoted(SuggestionBlock(t))) # <<>>
    /\ \A i \in DOMAIN LastQuoted(SuggestionBlock(t)) :
          LastQuoted(SuggestionBlock(t))[i] \notin {"is"} \cup Digits

\* C24: when the suggestion block has no 'Phrase to learn' label and no
\* definition-adjacent emphasis marker but two or more quoted spans,
\* extract_phrase_for_teaching returns the last quoted span of the block as
\* the phrase.
C24_LastQuotedSpan ==
    (last.op = "extract" /\ QuotedSpansOnly(last.output)) =>
        /\ last.ret # None
        /\ last.ret[1] = Strip(LastQuoted(SuggestionBlock(last.output)))

\* ------------------------------------------------------------------------
\* C25
\* ------------------------------------------------------------------------
\* the pass read records no two of which share a phrase key, and rewrote
\* the file
RewroteUniqueRecords ==
    /\ last.op = "normalize"
    /\ last.writes = 1
    /\ last.io = "ok"
    /\ NoSharedKey(last.before)

\* C25: a normalizer pass preserves the uniqueness of the phrase keys: if no
\* two records share a case-insensitive phrase key before the pass, none do
\* after it, even when the lessons of two records resolve to the same
\* canonical phrase.
C25_PassKeepsKeysUnique ==
    RewroteUniqueRecords => NoSharedKey(JsonLoad(file.val))

\* ------------------------------------------------------------------------
\* C26
\* ------------------------------------------------------------------------
\* the corrector output has no '---' in it
NoSeparator(out) == Find(out, Separator) = 0

\* the two-section answer the corrector is instructed to give
TwoSections(out) ==
    /\ Find(out, <<"Corrected context", ":">>) = 1
    /\ Find(out, <<"\n", "What to improve", ":">>) # 0

\* C26: for every corrector output that does not contain the separator
\* '---', extract_phrase_for_teaching returns None
C26_NoSeparatorNoTarget ==
    (last.op = "extract" /\ NoSeparator(last.output)) => last.ret = None

\* the two-section answer, without a separator, resolved to None
C26_Witness ==
    /\ last.op = "extract"
    /\ NoSeparator(last.output)
    /\ TwoSections(last.output)
    /\ last.ret = None
====
